---- MODULE Spec2Model ----
(***************************************************************************)
(* Model of the coupling layer of CADET's ModelSystem                      *)
(* (src/src/libcadet/model/ModelSystemImpl.cpp): status fusion, switch     *)
(* configuration, connection-list validation and section transitions.      *)
(*                                                                         *)
(* Conventions                                                             *)
(*  - C++ vectors are TLA+ sequences; the code's 0-based index i is        *)
(*    element i+1 of the sequence.  Unit indices stored in data            *)
(*    (connection rows, return values of indexOfUnitOp) stay 0-based, as   *)
(*    in the code.                                                         *)
(*  - Flow rates are doubles in the code.  The model draws them from a     *)
(*    grid of integers, on which the arithmetic of the code (+, -, abs,    *)
(*    comparisons) is exact.                                               *)
(*  - An exception leaves the object in the state reached when it was      *)
(*    thrown; the variable exc names the exception of the last call.       *)
(***************************************************************************)
EXTENDS Integers, Sequences, FiniteSets, TLC

VARIABLES
    models,              \* _models: the registered unit operations, in order
    paramProvider,       \* the "connections" group the last (re)configure read
    switchSectionIndex,  \* _switchSectionIndex
    connections,         \* _connections: one slice of rows <<src, dst, cs, cd>> per switch
    flowRates,           \* _flowRates: one slice of flow rates per switch
    curSwitchIndex,      \* _curSwitchIndex
    configured,          \* "no": configure() has not returned normally yet; "ok" / "failed":
                         \* how the last configure() or reconfigure() ended
    nextInOrder,         \* section index continuing the run 0, 1, 2, ... of transitions
                         \* made since the last (re)configuration; -1 if there is no such run
    errorIndicator,      \* _errorIndicator: one status code per unit
    curCode,             \* running status code fused with updateErrorIndicator
    connIn,              \* argument conn of the last checkConnectionList call
    call,                \* the last operation: its name, arguments and results
    exc,                 \* exception thrown by the last operation, or NoError
    inOutModels,         \* _inOutModels: indices of the units with inlet and outlet
    dofOffset,           \* _dofOffset
    couplingIdxMap,      \* _couplingIdxMap: <<unit index, component>> -> coupling DOF
    jacNF,               \* _jacNF: per unit, the entries of its inbound matrix
    jacFN,               \* _jacActiveFN and its copy _jacFN: per unit, the entries of
                         \* its outbound matrix
    totalInletFlow,      \* _totalInletFlow
    parameters,          \* _parameters: the registered flow-rate parameters, each with
                         \* key and handle (the place in _flowRates it points to)
    sensParams,          \* _sensParams: handles of the sensitive flow-rate parameters
    recorder,            \* an InternalStorageUnitOpRecorder: its members
    recorderLog          \* what the recorder was told: the bracket opened last and not
                         \* closed since, the beginTimestep calls since the integration
                         \* start, the exporter of the recorded unit

vars == << models, paramProvider, switchSectionIndex, connections, flowRates,
           curSwitchIndex, configured, nextInOrder,
           errorIndicator, curCode, connIn, call, exc,
           inOutModels, dofOffset, couplingIdxMap, jacNF, jacFN, totalInletFlow,
           parameters, sensParams, recorder, recorderLog >>

-----------------------------------------------------------------------------
(* Bounds of the model *)

\* status codes range over -MaxCode .. MaxCode
MaxCode == 2
\* longest list of per-unit status codes
MaxErrLen == 3
\* rows of a connection table in the row-validation specification
MaxRowsCheck == 1
\* rows of a connection table in the flow-balance specification
MaxRowsFlow == 2
\* number of switches of a configuration
MaxSwitches == 3
\* largest SECTION value and largest section index of a transition
MaxSec == 3
\* largest number of registered units in the layout specification
MaxModels == 2
\* rows of a connection table in the assembly specification
MaxRowsAsm == 2
MaxMatVec == 2     \* matrix-vector products evaluated by one Krylov solve
MaxSolution == 5   \* coupling values among which the Krylov solution is looked for
MaxSens == 2       \* sensitivity parameters of one residualSensFwd call
MaxRowsReg == 3    \* rows of the CONNECTIONS matrix of a one-switch registration run
MaxStored == 4     \* values the buffers of the recorder hold in a run
MaxTimesteps == 2  \* time steps of an integration, announced and reported

-----------------------------------------------------------------------------
(* Generic helpers *)

Min(S) == CHOOSE x \in S : \A y \in S : x <= y
Max(S) == CHOOSE x \in S : \A y \in S : x >= y
Abs(x) == IF x < 0 THEN -x ELSE x

\* std::max / std::min on ints
StdMax(a, b) == IF a < b THEN b ELSE a
StdMin(a, b) == IF b < a THEN b ELSE a

SeqsUpTo(S, n) == UNION { [1..k -> S] : k \in 0..n }

\* The codes held by a list of status codes.
CodesOf(err) == { err[i] : i \in DOMAIN err }

NoError == "none"
InvalidParameterException == "InvalidParameterException"

-----------------------------------------------------------------------------
(* Status fusion *)

Codes == (-MaxCode)..MaxCode

\* The loop of totalErrorIndicatorFromLocal from index i on.
RECURSIVE totalErrorScan(_, _, _)
totalErrorScan(err, i, totalError) ==
    IF i >= Len(err) THEN totalError
    ELSE IF err[i + 1] < 0 THEN err[i + 1]
    ELSE totalErrorScan(err, i + 1, StdMax(totalError, err[i + 1]))

totalErrorIndicatorFromLocal(err) == totalErrorScan(err, 0, 0)

\* Mutant: a negative current code wins over a more negative next code.
updateErrorIndicatorKeepFirst(curCodeArg, nextCode) ==
    IF curCodeArg < 0 THEN curCodeArg
    ELSE IF nextCode < 0 THEN nextCode
    ELSE StdMax(curCodeArg, nextCode)

updateErrorIndicator(curCodeArg, nextCode) ==
    IF (curCodeArg < 0) \/ (nextCode < 0)
    THEN StdMin(curCodeArg, nextCode)
    ELSE StdMax(curCodeArg, nextCode)

-----------------------------------------------------------------------------
(* Unit operations (external collaborators, seen through their contract) *)

Unit(id, nComp, inlet, outlet, accumulate) ==
    [ unitOperationId |-> id, numComponents |-> nComp,
      hasInlet |-> inlet, hasOutlet |-> outlet, canAccumulate |-> accumulate ]

\* Array index of the unit with the given id; Len(ms) if there is none.
indexOfUnitOp(ms, unitOpIdx) ==
    LET hits == { i \in 0..(Len(ms) - 1) : ms[i + 1].unitOperationId = unitOpIdx }
    IN  IF hits = {} THEN Len(ms) ELSE Min(hits)

\* conn: rows <<src, dst, cs, cd>>; size: number of rows.
isTerminal(conn, size, unitOpIdx) ==
    \A i \in 0..(size - 1) : conn[i + 1][1] # unitOpIdx

-----------------------------------------------------------------------------
(* checkConnectionList *)

\* A row of the CONNECTIONS matrix is <<source id, destination id,
\* source component, destination component, flow rate>>.

\* Mutant: the component range checks use > instead of >=.
RowErrorOffByOne(ms, row) ==
    LET uoSource == indexOfUnitOp(ms, row[1])
        uoDest == indexOfUnitOp(ms, row[2])
        compSource == row[3]
        compDest == row[4]
    IN  IF row[1] < 0 THEN "SourceIdNegative"
        ELSE IF row[2] < 0 THEN "DestIdNegative"
        ELSE IF uoSource >= Len(ms) THEN "SourceIdNotFound"
        ELSE IF uoDest >= Len(ms) THEN "DestIdNotFound"
        ELSE IF ~ms[uoSource + 1].hasOutlet THEN "SourceNoOutlet"
        ELSE IF ~ms[uoDest + 1].hasInlet THEN "DestNoInlet"
        ELSE IF (compSource >= 0) /\ (compSource > ms[uoSource + 1].numComponents)
             THEN "SourceComponentRange"
        ELSE IF (compDest >= 0) /\ (compDest > ms[uoDest + 1].numComponents)
             THEN "DestComponentRange"
        ELSE IF ((compSource < 0) /\ (compDest >= 0)) \/ ((compSource >= 0) /\ (compDest < 0))
             THEN "WildcardOneSide"
        ELSE IF (compSource < 0) /\ (compDest < 0)
                /\ (ms[uoSource + 1].numComponents # ms[uoDest + 1].numComponents)
             THEN "WildcardComponentCount"
        ELSE NoError

\* The checks of one row, in the order of the code; NoError if the row passes.
RowError(ms, row) ==
    LET uoSource == indexOfUnitOp(ms, row[1])
        uoDest == indexOfUnitOp(ms, row[2])
        compSource == row[3]
        compDest == row[4]
    IN  IF row[1] < 0 THEN "SourceIdNegative"
        ELSE IF row[2] < 0 THEN "DestIdNegative"
        ELSE IF uoSource >= Len(ms) THEN "SourceIdNotFound"
        ELSE IF uoDest >= Len(ms) THEN "DestIdNotFound"
        ELSE IF ~ms[uoSource + 1].hasOutlet THEN "SourceNoOutlet"
        ELSE IF ~ms[uoDest + 1].hasInlet THEN "DestNoInlet"
        ELSE IF (compSource >= 0) /\ (compSource >= ms[uoSource + 1].numComponents)
             THEN "SourceComponentRange"
        ELSE IF (compDest >= 0) /\ (compDest >= ms[uoDest + 1].numComponents)
             THEN "DestComponentRange"
        ELSE IF ((compSource < 0) /\ (compDest >= 0)) \/ ((compSource >= 0) /\ (compDest < 0))
             THEN "WildcardOneSide"
        ELSE IF (compSource < 0) /\ (compDest < 0)
                /\ (ms[uoSource + 1].numComponents # ms[uoDest + 1].numComponents)
             THEN "WildcardComponentCount"
        ELSE NoError

\* Rows j < i of the raw table that the code takes for an earlier occurrence of
\* the connection of row i.  The code compares the raw ids of row j with the
\* translated array indices uoSource, uoDest of row i.
EarlierSameConnection(conn, i, uoSource, uoDest) ==
    { j \in 0..(i - 1) : (conn[j + 1][1] = uoSource) /\ (uoDest = conn[j + 1][2]) }

\* State of the call before any row: outputs pre-allocated with zeros.
CheckStart(ms, conn) ==
    [ error |-> NoError, where |-> -1,
      connOnly |-> [ i \in 1..Len(conn) |-> <<0, 0, 0, 0>> ],
      flowRates |-> [ i \in 1..Len(conn) |-> 0 ],
      totalInflow |-> [ i \in 1..Len(ms) |-> 0 ],
      totalOutflow |-> [ i \in 1..Len(ms) |-> 0 ] ]

\* The bookkeeping of row i once its checks have passed; uoSource and uoDest
\* are the array indices of its units, earlier the rows taken for a previous
\* occurrence of the same connection.
AddRow(conn, i, st, uoSource, uoDest, earlier) ==
    IF earlier # {}
    THEN [ st EXCEPT !.connOnly[i + 1] = <<uoSource, uoDest, conn[i + 1][3], conn[i + 1][4]>>,
                     !.flowRates[i + 1] = conn[Min(earlier) + 1][5] ]
    ELSE [ st EXCEPT !.connOnly[i + 1] = <<uoSource, uoDest, conn[i + 1][3], conn[i + 1][4]>>,
                     !.flowRates[i + 1] = conn[i + 1][5],
                     !.totalInflow[uoDest + 1] = @ + conn[i + 1][5],
                     !.totalOutflow[uoSource + 1] = @ + conn[i + 1][5] ]

RowStep(ms, conn, i, st, uoSource, uoDest) ==
    AddRow(conn, i, st, uoSource, uoDest, EarlierSameConnection(conn, i, uoSource, uoDest))

\* The first loop: rows i, i+1, ... of conn.
RECURSIVE CheckRows(_, _, _, _)
CheckRows(ms, conn, i, st) ==
    IF i >= Len(conn) THEN st
    ELSE IF RowError(ms, conn[i + 1]) # NoError
    THEN [ st EXCEPT !.error = RowError(ms, conn[i + 1]), !.where = i ]
    ELSE CheckRows(ms, conn, i + 1,
             RowStep(ms, conn, i, st, indexOfUnitOp(ms, conn[i + 1][1]),
                     indexOfUnitOp(ms, conn[i + 1][2])))

\* diff >= 1e-15 and diff >= 1e-15 * |out|.  On the integer grid of the model
\* (|values| far below 1e15) a difference is 0 or at least 1, so the first
\* holds iff diff >= 1 and the second iff diff >= 1 or out = 0.
GeAbsTol(diff) == diff >= 1
GeRelTol(diff, out) == (diff >= 1) \/ (Abs(out) = 0)

\* Mutant: terminal units are not exempt.
BalanceThrowsNoTerminal(ms, connOnly, totalInflow, totalOutflow, i) ==
    LET tin == totalInflow[i + 1]
        tout == totalOutflow[i + 1]
        m == ms[i + 1]
        diff == Abs(tin - tout)
    IN  IF (tin >= 0) /\ (tout = 0) /\ m.hasInlet /\ ~m.hasOutlet THEN FALSE
        ELSE IF (tin = 0) /\ (tout >= 0) /\ ~m.hasInlet /\ m.hasOutlet THEN FALSE
        ELSE (GeAbsTol(diff) \/ GeRelTol(diff, tout)) /\ ~m.canAccumulate

\* Body of the balance loop for unit i: TRUE iff it throws.
BalanceThrows(ms, connOnly, totalInflow, totalOutflow, i) ==
    LET tin == totalInflow[i + 1]
        tout == totalOutflow[i + 1]
        m == ms[i + 1]
        diff == Abs(tin - tout)
    IN  IF (tin >= 0) /\ (tout = 0) /\ m.hasInlet /\ ~m.hasOutlet THEN FALSE
        ELSE IF (tin = 0) /\ (tout >= 0) /\ ~m.hasInlet /\ m.hasOutlet THEN FALSE
        ELSE IF (tout >= 0) /\ isTerminal(connOnly, Len(connOnly), i) THEN FALSE
        ELSE (GeAbsTol(diff) \/ GeRelTol(diff, tout)) /\ ~m.canAccumulate

\* The second loop, entered with the state st the first loop left: it throws
\* for the first unit whose balance check fails.
CheckBalance(ms, st, failing) ==
    IF st.error # NoError THEN st
    ELSE IF failing # {} THEN [ st EXCEPT !.error = "FlowBalance", !.where = Min(failing) ]
    ELSE st

FailingUnits(ms, st) ==
    { i \in 0..(Len(ms) - 1) :
        BalanceThrows(ms, st.connOnly, st.totalInflow, st.totalOutflow, i) }

CheckBalanceOf(ms, st) == CheckBalance(ms, st, FailingUnits(ms, st))

\* The whole call.  error = NoError: returned normally.  Otherwise the call
\* threw InvalidParameterException; where is the row (row checks) or the unit
\* index (flow balance) named in the message.
CheckConnectionList(ms, conn) ==
    CheckBalanceOf(ms, CheckRows(ms, conn, 0, CheckStart(ms, conn)))

-----------------------------------------------------------------------------
(* configureSwitches *)

\* Mutant: equal SECTION values of consecutive switches are let through.
SectionNotIncreasingAllowEqual(sec, i) ==
    (i > 0) /\ (sec[Len(sec)] < sec[Len(sec) - 1])

\* The monotonicity check after SECTION of switch i has been pushed to sec.
SectionNotIncreasing(sec, i) ==
    (i > 0) /\ (sec[Len(sec)] <= sec[Len(sec) - 1])

\* The connections group: one entry [section, conn] per switch_xxx scope,
\* conn being the rows of its CONNECTIONS matrix.  Rows are 5-tuples, so the
\* "5 columns" check of the code never fails here.
\* The storage of _flowRates, slice after slice.
RECURSIVE FlatFlowRates(_, _)
FlatFlowRates(frs, i) ==
    IF i > Len(frs) THEN <<>> ELSE frs[i] \o FlatFlowRates(frs, i + 1)

SwitchState(sec, conns, frs, params, error) ==
    [ sec |-> sec, conns |-> conns, frs |-> frs, params |-> params, error |-> error ]

\* The unit operation id of a parameter that belongs to no single unit.
UnitOpIndep == -1

\* makeParamId(flowHash, UnitOpIndep, CompIndep, source, dest, i)
FlowParamId(source, dest, i) ==
    [ name |-> "CONNECTION", unitOperation |-> UnitOpIndep,
      source |-> source, dest |-> dest, switch |-> i ]

\* _parameters[id] = handle
Registered(params, id, handle) ==
    { q \in params : q.id # id } \cup { [ id |-> id, handle |-> handle ] }

\* Number of flow rates stored in _flowRates ahead of the slice of a new switch.
StoredFlowRates(frs) == Len(FlatFlowRates(frs, 1))

\* The registrations of switch i, rows j, j+1, ... of its translated table
\* conn: _flowRates.back() + j is the handle of row j, base being the place of
\* row 0 of the slice.  Only the first row of a pair registers.
RECURSIVE RegisterRows(_, _, _, _, _)
RegisterRows(conn, i, base, params, j) ==
    IF j >= Len(conn) THEN params
    ELSE IF \E k \in 0..(j - 1) :
                (conn[k + 1][1] = conn[j + 1][1]) /\ (conn[k + 1][2] = conn[j + 1][2])
    THEN RegisterRows(conn, i, base, params, j + 1)
    ELSE RegisterRows(conn, i, base,
             Registered(params, FlowParamId(conn[j + 1][1], conn[j + 1][2], i), base + j),
             j + 1)

\* Switch i after its SECTION has been pushed and found increasing: chk is
\* the outcome of checkConnectionList on its table.
PushSwitch(sec, st, chk) ==
    IF chk.error # NoError
    THEN SwitchState(sec, st.conns, st.frs, st.params, chk.error)
    ELSE SwitchState(sec, Append(st.conns, chk.connOnly), Append(st.frs, chk.flowRates),
                     RegisterRows(chk.connOnly, Len(st.conns), StoredFlowRates(st.frs),
                                  st.params, 0),
                     NoError)

\* One pass of the loop over the switches.
SwitchStep(ms, cfg, i, st, sec) ==
    IF SectionNotIncreasing(sec, i)
    THEN SwitchState(sec, st.conns, st.frs, st.params, "SectionNotIncreasing")
    ELSE PushSwitch(sec, st, CheckConnectionList(ms, cfg[i + 1].conn))

\* The loop over the switches, from switch i on; an exception ends it.
RECURSIVE ConfigureSwitchLoop(_, _, _, _)
ConfigureSwitchLoop(ms, cfg, i, st) ==
    IF (i >= Len(cfg)) \/ (st.error # NoError) THEN st
    ELSE ConfigureSwitchLoop(ms, cfg, i + 1,
             SwitchStep(ms, cfg, i, st, Append(st.sec, cfg[i + 1].section)))

\* The check after the loop.  With NSWITCHES = 0 it reads
\* _switchSectionIndex[0] of an empty vector; firstIfEmpty is the value that
\* read yields.
CheckFirstSection(st, firstIfEmpty) ==
    IF st.error # NoError THEN st
    ELSE IF (IF Len(st.sec) = 0 THEN firstIfEmpty ELSE st.sec[1]) # 0
    THEN [ st EXCEPT !.error = "FirstSectionNotZero" ]
    ELSE st

\* The whole call.
ConfigureSwitches(ms, cfg, firstIfEmpty) ==
    CheckFirstSection(
        ConfigureSwitchLoop(ms, cfg, 0, SwitchState(<<>>, <<>>, <<>>, {}, NoError)),
        firstIfEmpty)

-----------------------------------------------------------------------------
(* Parameters *)

\* _parameters.find(pId): the handles registered under pId (one or none).
HandlesOf(params, pId) == { q.handle : q \in { r \in params : r.id = pId } }

\* The units the loops over _models hand a call for pId to, as array indices.
FilterByUnit(ms, pId) ==
    { i \in 0..(Len(ms) - 1) :
        (ms[i + 1].unitOperationId = pId.unitOperation) \/ (pId.unitOperation = UnitOpIndep) }

\* hasParameter(pId); owners are the units whose hasParameter(pId) is true.
hasParameter(ms, params, pId, owners) ==
    (\E i \in FilterByUnit(ms, pId) : i \in owners) \/ (HandlesOf(params, pId) # {})

\* setParameterImpl(pId, value): the first unit the filter lets through gets
\* the call and its answer is returned; a unit answers true if it owns pId.
setParameterImpl(ms, pId, owners) ==
    IF FilterByUnit(ms, pId) = {} THEN [ delivered |-> {}, ret |-> FALSE ]
    ELSE [ delivered |-> { Min(FilterByUnit(ms, pId)) },
           ret |-> Min(FilterByUnit(ms, pId)) \in owners ]

\* paramHandle->second->setValue(value): frs with value at the place handle
\* of its storage.
RECURSIVE WithValueAt(_, _, _, _)
WithValueAt(frs, i, handle, value) ==
    IF i > Len(frs) THEN <<>>
    ELSE IF handle < Len(frs[i])
    THEN << [ frs[i] EXCEPT ![handle + 1] = value ] >> \o SubSeq(frs, i + 1, Len(frs))
    ELSE << frs[i] >> \o WithValueAt(frs, i + 1, handle - Len(frs[i]), value)

-----------------------------------------------------------------------------
(* notifyDiscontinuousSectionTransition *)

\* _curSwitchIndex after the update at the head of the function.
AdvanceSwitch(sec, cur, secIdx) ==
    LET start == IF secIdx = 0 THEN 0 ELSE cur
        wrapSec == secIdx % Len(sec)
    IN  IF (start < Len(sec) - 1) /\ (sec[start + 2] <= wrapSec) THEN start + 1
        ELSE IF (start = Len(sec) - 1) /\ (sec[1] = wrapSec) THEN 0
        ELSE start

\* Mutant: the matrices are rebuilt only when the switch index moved.
AssembleNeededOnChangeOnly(secIdx, prevSwitch, newSwitch) ==
    prevSwitch # newSwitch

\* The condition under which assembleSuperStructMatrices is called.
AssembleNeeded(secIdx, prevSwitch, newSwitch) ==
    (0 = secIdx) \/ (prevSwitch # newSwitch)

-----------------------------------------------------------------------------
(* Layout of the global state vector: rebuildInternalDataStructures *)

\* Conversion of an int to unsigned int.  The model's unsigned int is 16 bits
\* wide: a negative int becomes a value far above every index of the model, as
\* it does with 32 bits.
UIntModulus == 65536
Unsigned(x) == x % UIntModulus

\* Contract of the unit operations of the model: the inlet DOFs of a unit, one
\* per component, come first in its block, its outlet DOFs follow.
UnitNumDofs(m) ==
    m.numComponents * ((IF m.hasInlet THEN 1 ELSE 0) + (IF m.hasOutlet THEN 1 ELSE 0))
localInletComponentIndex(m) == 0
localInletComponentStride(m) == 1
localOutletComponentIndex(m) == IF m.hasInlet THEN m.numComponents ELSE 0
localOutletComponentStride(m) == 1

\* The loop filling _dofOffset from unit i on, and the final push of the
\* offset of the coupling block.
RECURSIVE DofOffsetLoop(_, _, _)
DofOffsetLoop(ms, i, totalDof) ==
    IF i >= Len(ms) THEN << totalDof >>
    ELSE << totalDof >> \o DofOffsetLoop(ms, i + 1, totalDof + UnitNumDofs(ms[i + 1]))

\* std::map::insert: an existing key keeps its value.
MapInsert(map, key, value) ==
    IF key \in DOMAIN map THEN map
    ELSE [ k \in (DOMAIN map) \cup {key} |-> IF k = key THEN value ELSE map[k] ]

\* The loops filling _couplingIdxMap, from component comp of unit i on.
RECURSIVE CouplingMapLoop(_, _, _, _, _)
CouplingMapLoop(ms, i, comp, map, counter) ==
    IF i >= Len(ms) THEN map
    ELSE IF (~ms[i + 1].hasInlet) \/ (comp >= ms[i + 1].numComponents)
    THEN CouplingMapLoop(ms, i + 1, 0, map, counter)
    ELSE CouplingMapLoop(ms, i, comp + 1, MapInsert(map, <<i, comp>>, counter), counter + 1)

\* numCouplingDOF(): the number of entries of _couplingIdxMap.
numCouplingDOF(map) == Cardinality(DOMAIN map)

\* ModelSystem::numDofs(); with an empty offset table it reads back() of an
\* empty vector, garbage is the value this read yields.
numDofs(off, map, garbage) ==
    (IF Len(off) = 0 THEN garbage ELSE off[Len(off)]) + numCouplingDOF(map)

\* std::vector::resize(n, 0)
Resize(v, n) == [ i \in 1..n |-> IF i <= Len(v) THEN v[i] ELSE 0 ]

-----------------------------------------------------------------------------
(* assembleSuperStructMatrices *)

\* A matrix is the sequence of its entries in the order of the addElement
\* calls.  An entry of an outbound matrix keeps its value -rate / total as the
\* pair num / den; den = 0 stands for the result of a division by zero.
Entry(row, col, num, den) == [ row |-> row, col |-> col, num |-> num, den |-> den ]

\* The loops filling the inbound matrices, from component comp of unit i on.
RECURSIVE AssembleNF(_, _, _, _, _)
AssembleNF(ms, i, comp, nf, couplingIdx) ==
    IF i >= Len(ms) THEN nf
    ELSE IF (~ms[i + 1].hasInlet) \/ (comp >= ms[i + 1].numComponents)
    THEN AssembleNF(ms, i + 1, 0, nf, couplingIdx)
    ELSE AssembleNF(ms, i, comp + 1,
             [ nf EXCEPT ![i + 1] = Append(@,
                 Entry(localInletComponentIndex(ms[i + 1])
                           + comp * localInletComponentStride(ms[i + 1]),
                       couplingIdx, -1, 1)) ],
             couplingIdx + 1)

\* Rows j < i of the slice with the source and destination of row i.
EarlierSamePair(conn, i) ==
    { j \in 0..(i - 1) : (conn[j + 1][1] = conn[i + 1][1]) /\ (conn[j + 1][2] = conn[i + 1][2]) }

\* The loop computing _totalInletFlow, from row i on.
RECURSIVE TotalInletLoop(_, _, _, _)
TotalInletLoop(conn, rate, i, total) ==
    IF i >= Len(conn) THEN total
    ELSE IF EarlierSamePair(conn, i) # {} THEN TotalInletLoop(conn, rate, i + 1, total)
    ELSE TotalInletLoop(conn, rate, i + 1,
             [ total EXCEPT ![conn[i + 1][2] + 1] = @ + rate[i + 1] ])

\* _couplingIdxMap[key]: std::map::operator[] inserts a missing key with value 0.
MapAt(map, key) == IF key \in DOMAIN map THEN map[key] ELSE 0
MapTouched(map, key) == MapInsert(map, key, 0)

\* Column of the outlet DOF of component comp in the block of unit m.
OutletColumn(m, comp) ==
    Unsigned(localOutletComponentIndex(m) + localOutletComponentStride(m) * comp)

\* st = [map, fn]: the state after one addElement for row i of the slice,
\* whose value uses the flow rate of row idx, into coupling row key.
AddOutbound(ms, conn, rate, total, st, i, idx, key, comp) ==
    [ map |-> MapTouched(st.map, key),
      fn |-> [ st.fn EXCEPT ![conn[i + 1][1] + 1] = Append(@,
                 Entry(MapAt(st.map, key), OutletColumn(ms[conn[i + 1][1] + 1], comp),
                       -rate[idx + 1], total[conn[i + 1][2] + 1])) ] ]

\* The loop over the components of a wildcard row, from component comp on.
RECURSIVE WildcardLoop(_, _, _, _, _, _, _, _)
WildcardLoop(ms, conn, rate, total, st, i, idx, comp) ==
    IF comp >= ms[conn[i + 1][1] + 1].numComponents THEN st
    ELSE WildcardLoop(ms, conn, rate, total,
             AddOutbound(ms, conn, rate, total, st, i, idx, <<conn[i + 1][2], comp>>, comp),
             i, idx, comp + 1)

\* Index of the first row with the source and destination of row i.
FirstRowOfPair(conn, i) ==
    IF EarlierSamePair(conn, i) = {} THEN i ELSE Min(EarlierSamePair(conn, i))

\* The loop filling the outbound matrices, from row i on.
RECURSIVE AssembleFN(_, _, _, _, _, _)
AssembleFN(ms, conn, rate, total, st, i) ==
    IF i >= Len(conn) THEN st
    ELSE IF conn[i + 1][3] = -1
    THEN AssembleFN(ms, conn, rate, total,
             WildcardLoop(ms, conn, rate, total, st, i, FirstRowOfPair(conn, i), 0), i + 1)
    ELSE AssembleFN(ms, conn, rate, total,
             AddOutbound(ms, conn, rate, total, st, i, FirstRowOfPair(conn, i),
                         <<conn[i + 1][2], Unsigned(conn[i + 1][4])>>, conn[i + 1][3]),
             i + 1)

\* std::fill(_totalInletFlow.begin(), _totalInletFlow.end(), 0.0)
ZeroFilled(v) == [ i \in 1..Len(v) |-> 0 ]
ClearedMatrices(ms) == [ i \in 1..Len(ms) |-> <<>> ]

\* The whole call on the slice conn, rate of the active switch: the inbound
\* matrices, the total inlet flows, and the map and outbound matrices.
assembleSuperStructMatrices(ms, conn, rate, map, total) ==
    [ nf |-> AssembleNF(ms, 0, 0, ClearedMatrices(ms), 0),
      total |-> total,
      out |-> AssembleFN(ms, conn, rate, total,
                         [ map |-> map, fn |-> ClearedMatrices(ms) ], 0) ]

-----------------------------------------------------------------------------
(* Sparse matrix-vector products and the unit operations' own equations *)

\* Vectors are sequences over the global DOFs; a pointer vec + off is the
\* pair vec, off.  The value of an entry times v is num * v / den; the runs
\* use states on which the quotient is an integer.
EntryTimes(e, v) == (e.num * v) \div e.den

\* out[row] += sign * value * x[col] for the entries j, j+1, ... of A.
RECURSIVE MultiplyInto(_, _, _, _, _, _, _)
MultiplyInto(A, j, x, xoff, out, outoff, sign) ==
    IF j > Len(A) THEN out
    ELSE MultiplyInto(A, j + 1, x, xoff,
             [ out EXCEPT ![outoff + A[j].row + 1] =
                              @ + sign * EntryTimes(A[j], x[xoff + A[j].col + 1]) ],
             outoff, sign)

\* SparseMatrix::multiplyAdd(x, out): out += A x
multiplyAdd(A, x, xoff, out, outoff) == MultiplyInto(A, 1, x, xoff, out, outoff, 1)
\* SparseMatrix::multiplySubtract(x, out): out -= A x
multiplySubtract(A, x, xoff, out, outoff) == MultiplyInto(A, 1, x, xoff, out, outoff, -1)

\* v with the elements off .. off+n-1 (0-based) replaced by those of w.
WithSlice(v, off, n, w) ==
    [ k \in 1..Len(v) |-> IF (k > off) /\ (k <= off + n) THEN w[k - off] ELSE v[k] ]
Slice(v, off, n) == [ k \in 1..n |-> v[off + k] ]
Zeros(n) == [ k \in 1..n |-> 0 ]

\* SparseMatrix::multiplyVector(x, out): the n elements of out become A x
multiplyVector(A, x, xoff, out, outoff, n) ==
    MultiplyInto(A, 1, x, xoff, WithSlice(out, outoff, n, Zeros(n)), outoff, 1)

\* The equations of a unit of the model on its own DOFs ys: an inlet DOF
\* stands alone, an outlet DOF of a unit with an inlet follows the inlet DOF
\* of its component.  UnitJacobianRow is row r (1-based) of its Jacobian
\* applied to ys, UnitSolveRow row r of the inverse.
UnitJacobianRow(m, ys, r) ==
    IF m.hasInlet /\ m.hasOutlet /\ (r > m.numComponents)
    THEN ys[r] - ys[r - m.numComponents]
    ELSE ys[r]
UnitSolveRow(m, ys, r) ==
    IF m.hasInlet /\ m.hasOutlet /\ (r > m.numComponents)
    THEN ys[r] + ys[r - m.numComponents]
    ELSE ys[r]
\* IUnitOperation::residual on the slice ys
UnitResidual(m, ys) == [ r \in 1..UnitNumDofs(m) |-> UnitJacobianRow(m, ys, r) ]
\* IUnitOperation::linearSolve on the slice ys, solved exactly
UnitLinearSolve(m, ys) == [ r \in 1..UnitNumDofs(m) |-> UnitSolveRow(m, ys, r) ]

-----------------------------------------------------------------------------
(* residual *)

\* The loop over the units, from unit i on: each unit fills its slice of res.
RECURSIVE ResidualUnits(_, _, _, _, _)
ResidualUnits(ms, off, y, res, i) ==
    IF i >= Len(ms) THEN res
    ELSE ResidualUnits(ms, off, y,
             WithSlice(res, off[i + 1], UnitNumDofs(ms[i + 1]),
                       UnitResidual(ms[i + 1], Slice(y, off[i + 1], UnitNumDofs(ms[i + 1])))),
             i + 1)

\* res[i] = y[i] for the coupling DOFs finalOffset <= i < nDofs.
CouplingIdentity(y, res, finalOffset, nDofs) ==
    [ k \in 1..Len(res) |-> IF (k > finalOffset) /\ (k <= nDofs) THEN y[k] ELSE res[k] ]

\* The loop adding _jacNF[i] * y[coupling] to the slice of unit i, from unit i on.
RECURSIVE ConnectInbound(_, _, _, _, _, _)
ConnectInbound(nf, off, y, res, finalOffset, i) ==
    IF i >= Len(nf) THEN res
    ELSE ConnectInbound(nf, off, y,
             multiplyAdd(nf[i + 1], y, finalOffset, res, off[i + 1]), finalOffset, i + 1)

\* The loop adding _jacFN[i] * y[unit i] to the coupling rows, from unit i on.
RECURSIVE ConnectOutbound(_, _, _, _, _, _)
ConnectOutbound(fn, off, y, res, finalOffset, i) ==
    IF i >= Len(fn) THEN res
    ELSE ConnectOutbound(fn, off, y,
             multiplyAdd(fn[i + 1], y, off[i + 1], res, finalOffset), finalOffset, i + 1)

\* Mutant: the coupling rows are not preset with the coupling state.
residualConnectUnitOpsNoIdentity(nf, fn, off, y, res, nDofs) ==
    ConnectOutbound(fn, off, y,
        ConnectInbound(nf, off, y, res, off[Len(off)], 0),
        off[Len(off)], 0)

\* residualConnectUnitOps(secIdx, y, yDot, res)
residualConnectUnitOps(nf, fn, off, y, res, nDofs) ==
    ConnectOutbound(fn, off, y,
        ConnectInbound(nf, off, y,
            CouplingIdentity(y, res, off[Len(off)], nDofs), off[Len(off)], 0),
        off[Len(off)], 0)

-----------------------------------------------------------------------------
(* linearSolve and schurComplementMatrixVector *)

\* The loop of local solves, from unit i on: unit i solves on its slice of rhs.
RECURSIVE LocalSolves(_, _, _, _)
LocalSolves(ms, off, rhs, i) ==
    IF i >= Len(ms) THEN rhs
    ELSE LocalSolves(ms, off,
             WithSlice(rhs, off[i + 1], UnitNumDofs(ms[i + 1]),
                 UnitLinearSolve(ms[i + 1], Slice(rhs, off[i + 1], UnitNumDofs(ms[i + 1])))),
             i + 1)

\* Mutant: the outbound contribution is added to the coupling right-hand side.
ForwardEliminationAdding(fn, off, rhs, i) ==
    ConnectOutbound(fn, off, rhs, rhs, off[Len(off)], i)

\* The loop rhs[coupling] -= _jacFN[i] * rhs[unit i], from unit i on.
RECURSIVE ForwardElimination(_, _, _, _)
ForwardElimination(fn, off, rhs, i) ==
    IF i >= Len(fn) THEN rhs
    ELSE ForwardElimination(fn, off,
             multiplySubtract(fn[i + 1], rhs, off[i + 1], rhs, off[Len(off)]), i + 1)

\* What the task of unit idxModel leaves in its slice of _tempState: its
\* local solve of _jacNF[idxModel] * x, x = vec + xoff.
SchurLocalSolve(ms, nf, vec, xoff, idxModel) ==
    UnitLinearSolve(ms[idxModel + 1],
        multiplyVector(nf[idxModel + 1], vec, xoff,
                       Zeros(UnitNumDofs(ms[idxModel + 1])), 0, UnitNumDofs(ms[idxModel + 1])))

\* z after the task of unit idxModel has subtracted _jacFN[idxModel] * t.
SchurSubtract(fn, t, z, idxModel) == multiplySubtract(fn[idxModel + 1], t, 0, z, 0)

\* The loop over _inOutModels, from entry i on, in the order of the list.
RECURSIVE SchurLoop(_, _, _, _, _, _, _)
SchurLoop(ms, inOut, nf, fn, x, z, i) ==
    IF i >= Len(inOut) THEN z
    ELSE SchurLoop(ms, inOut, nf, fn, x,
             SchurSubtract(fn, SchurLocalSolve(ms, nf, x, 0, inOut[i + 1]), z, inOut[i + 1]),
             i + 1)

\* schurComplementMatrixVector(x, z, ...): z starts as a copy of x.
schurComplementMatrixVector(ms, inOut, nf, fn, x) == SchurLoop(ms, inOut, nf, fn, x, x, 0)

\* The loop of the back substitution, from unit idxModel on.
RECURSIVE BackSubstitution(_, _, _, _, _)
BackSubstitution(ms, nf, off, rhs, idxModel) ==
    IF idxModel >= Len(ms) THEN rhs
    ELSE BackSubstitution(ms, nf, off,
             WithSlice(rhs, off[idxModel + 1], UnitNumDofs(ms[idxModel + 1]),
                 [ r \in 1..UnitNumDofs(ms[idxModel + 1]) |->
                     rhs[off[idxModel + 1] + r]
                       - SchurLocalSolve(ms, nf, rhs, off[Len(off)], idxModel)[r] ]),
             idxModel + 1)

\* _errorIndicator[i] = updateErrorIndicator(_errorIndicator[i], code of unit i)
UpdatedIndicators(err, codes) ==
    [ i \in 1..Len(err) |-> updateErrorIndicator(err[i], codes[i]) ]

\* _errorIndicator after one matrix-vector product in which the units of
\* _inOutModels returned the codes mv (one per entry of the list).
IndicatorsAfterMatVec(err, inOut, mv) ==
    [ i \in 1..Len(err) |->
        IF \E k \in 1..Len(inOut) : inOut[k] = i - 1
        THEN updateErrorIndicator(err[i],
                 mv[CHOOSE k \in 1..Len(inOut) : inOut[k] = i - 1])
        ELSE err[i] ]

\* The Krylov solve of S x = b with S x evaluated by
\* schurComplementMatrixVector, taken to be exact: the solution with entries
\* of magnitude up to MaxSolution.
GmresSolve(ms, inOut, nf, fn, b) ==
    CHOOSE x \in [ 1..Len(b) -> (0 - MaxSolution)..MaxSolution ] :
        schurComplementMatrixVector(ms, inOut, nf, fn, x) = b

\* The status of the Krylov solve: its own status fused with what the
\* matrix-vector products k, k + 1, ... return, each of them
\* totalErrorIndicatorFromLocal(_errorIndicator) after its unit codes mvs[k]
\* have been recorded.
RECURSIVE GmresResult(_, _, _, _, _)
GmresResult(err, inOut, mvs, k, status) ==
    IF k > Len(mvs) THEN status
    ELSE GmresResult(IndicatorsAfterMatVec(err, inOut, mvs[k]), inOut, mvs, k + 1,
             updateErrorIndicator(status,
                 totalErrorIndicatorFromLocal(IndicatorsAfterMatVec(err, inOut, mvs[k]))))


-----------------------------------------------------------------------------
(* The parallel loops (build with CADET_PARALLELIZE) *)

\* The statements one task of each tbb::parallel_for executes, in order.
Program(phase) ==
    CASE phase = "residual" -> << "unitResidual", "status" >>
      [] phase = "localSolve" -> << "unitSolveRhs", "status" >>
      [] phase = "schurMatVec" -> << "multiplyVector", "unitSolve", "status",
                                     "lock", "multiplySubtract", "unlock" >>
      [] phase = "backSubstitution" -> << "multiplyVector", "unitSolve", "status",
                                          "subtractTemp" >>

\* The unit index each task of the loop works on.
TaskUnits(phase, ms, inOut) ==
    IF phase = "schurMatVec" THEN inOut ELSE [ i \in 1..Len(ms) |-> i - 1 ]

\* The elements off[idxModel], ..., off[idxModel + 1] - 1 of an array.
SliceOf(array, off, idxModel) ==
    { << array, g >> : g \in off[idxModel + 1]..(off[idxModel + 2] - 1) }

\* The memory a statement writes when run for unit idxModel.
WriteSet(step, fn, off, idxModel) ==
    CASE step = "unitResidual" -> SliceOf("res", off, idxModel)
      [] step \in {"unitSolveRhs", "subtractTemp"} -> SliceOf("rhs", off, idxModel)
      [] step \in {"multiplyVector", "unitSolve"} -> SliceOf("_tempState", off, idxModel)
      [] step = "status" -> { << "_errorIndicator", idxModel >> }
      [] step = "multiplySubtract" ->
             { << "z", fn[idxModel + 1][j].row >> : j \in 1..Len(fn[idxModel + 1]) }
      [] OTHER -> {}

\* SchurComplementMutex::scoped_lock l(_schurMutex) can be taken.
MutexFree(mutex) == mutex = 0

\* _tempState after a statement of a task of schurComplementMatrixVector.
TempAfter(step, ms, nf, off, x, temp, idxModel) ==
    CASE step = "multiplyVector" ->
             multiplyVector(nf[idxModel + 1], x, 0, temp, off[idxModel + 1],
                            UnitNumDofs(ms[idxModel + 1]))
      [] step = "unitSolve" ->
             WithSlice(temp, off[idxModel + 1], UnitNumDofs(ms[idxModel + 1]),
                 UnitLinearSolve(ms[idxModel + 1],
                     Slice(temp, off[idxModel + 1], UnitNumDofs(ms[idxModel + 1]))))
      [] OTHER -> temp

\* z after a statement of a task of schurComplementMatrixVector.
ZAfter(step, fn, off, temp, z, idxModel) ==
    IF step = "multiplySubtract"
    THEN multiplySubtract(fn[idxModel + 1], temp, off[idxModel + 1], z, 0)
    ELSE z

-----------------------------------------------------------------------------
(* Consistent initialization *)

\* The second loop of solveCouplingDOF, from unit i on: the inlet DOFs of the
\* units with an inlet take the coupling values, idxCoupling running on.
RECURSIVE InletsFromCoupling(_, _, _, _, _)
InletsFromCoupling(ms, off, vec, i, idxCoupling) ==
    IF i >= Len(ms) THEN vec
    ELSE IF ~ms[i + 1].hasInlet THEN InletsFromCoupling(ms, off, vec, i + 1, idxCoupling)
    ELSE InletsFromCoupling(ms, off,
             [ g \in 1..Len(vec) |->
                 IF \E comp \in 0..(ms[i + 1].numComponents - 1) :
                        g = off[i + 1] + localInletComponentIndex(ms[i + 1])
                              + comp * localInletComponentStride(ms[i + 1]) + 1
                 THEN vec[idxCoupling + 1
                          + (CHOOSE comp \in 0..(ms[i + 1].numComponents - 1) :
                               g = off[i + 1] + localInletComponentIndex(ms[i + 1])
                                     + comp * localInletComponentStride(ms[i + 1]) + 1)]
                 ELSE vec[g] ],
             i + 1, idxCoupling + ms[i + 1].numComponents)

\* Mutant: the coupling values are computed, the inlet DOFs are left alone.
solveCouplingDOFCouplingOnly(ms, fn, off, vec) == ForwardElimination(fn, off, vec, 0)

\* solveCouplingDOF(vec): vec[coupling] -= _jacFN[i] * vec[unit i] for every
\* unit, then the inlet DOFs are set.
solveCouplingDOF(ms, fn, off, vec) ==
    InletsFromCoupling(ms, off, ForwardElimination(fn, off, vec, 0), 0, off[Len(off)])

\* std::fill(vec + finalOffset, vec + numDofs(), 0.0)
ZeroCoupling(vec, finalOffset) ==
    [ g \in 1..Len(vec) |-> IF g > finalOffset THEN 0 ELSE vec[g] ]

\* The consistent-state routine of a unit of the model (full or lean): the
\* outlet DOF of a unit with an inlet is set to the inlet DOF of its component.
UnitConsistentState(m, ys) ==
    [ r \in 1..Len(ys) |->
        IF m.hasInlet /\ m.hasOutlet /\ (r > m.numComponents)
        THEN ys[r - m.numComponents] ELSE ys[r] ]

\* The time-derivative routine of a unit of the model: the derivative that
\* cancels the residual evaluated without derivative.
UnitTimeDerivative(m, resSlice) == [ r \in 1..Len(resSlice) |-> 0 - resSlice[r] ]

\* The inlet DOFs of unit i hold the values of its coupling DOFs.
InletsHoldCoupling(ms, off, map, y, i) ==
    \A comp \in 0..(ms[i + 1].numComponents - 1) :
        y[off[i + 1] + localInletComponentIndex(ms[i + 1])
            + comp * localInletComponentStride(ms[i + 1]) + 1]
          = y[off[Len(off)] + MapAt(map, << i, comp >>) + 1]

\* The loops calling ConsistentInit<tag_t>::state for the units with an inlet
\* (withInlet) or without, from unit i on; st holds the vectors and the log
\* of the routines run.
RECURSIVE StateLoop(_, _, _, _, _, _)
StateLoop(ms, off, map, withInlet, st, i) ==
    IF i >= Len(ms) THEN st
    ELSE IF ms[i + 1].hasInlet # withInlet THEN StateLoop(ms, off, map, withInlet, st, i + 1)
    ELSE StateLoop(ms, off, map, withInlet,
             [ st EXCEPT
                 !.y = WithSlice(@, off[i + 1], UnitNumDofs(ms[i + 1]),
                           UnitConsistentState(ms[i + 1],
                               Slice(@, off[i + 1], UnitNumDofs(ms[i + 1])))),
                 !.log = Append(@, [ routine |-> "state", unit |-> i,
                                     inletsSet |-> withInlet =>
                                         InletsHoldCoupling(ms, off, map, st.y, i) ]) ],
             i + 1)

\* The loop calling ConsistentInit<tag_t>::timeDerivative, from unit i on;
\* res is vecStateYdot (full) or _tempState (lean).
RECURSIVE TimeDerivativeLoop(_, _, _, _, _)
TimeDerivativeLoop(ms, off, res, st, i) ==
    IF i >= Len(ms) THEN st
    ELSE TimeDerivativeLoop(ms, off, res,
             [ st EXCEPT
                 !.yDot = WithSlice(@, off[i + 1], UnitNumDofs(ms[i + 1]),
                              UnitTimeDerivative(ms[i + 1],
                                  Slice(res, off[i + 1], UnitNumDofs(ms[i + 1])))),
                 !.log = Append(@, [ routine |-> "timeDerivative", unit |-> i ]) ],
             i + 1)

\* residualWithJacobian(t, secIdx, timeFactor, y, nullptr, res, ...)
ResidualWithoutDerivative(ms, nf, fn, off, y) ==
    residualConnectUnitOps(nf, fn, off, y, ResidualUnits(ms, off, y, Zeros(Len(y)), 0),
                           Len(y))

\* Mutant: the units with an inlet are initialized before the coupling solve.
ConsistentInitStepsInletFirst ==
    << "stateNoInlet", "stateInlet", "solveCouplingY", "residualWithJacobian",
       "timeDerivative", "solveCouplingYdot" >>

\* The statements of consistentInitialConditionAlgorithm, in order.
ConsistentInitSteps ==
    << "stateNoInlet", "solveCouplingY", "stateInlet", "residualWithJacobian",
       "timeDerivative", "solveCouplingYdot" >>

\* The vectors and the log after one statement of the algorithm.
InitAfter(step, tag, ms, nf, fn, off, map, st) ==
    CASE step = "stateNoInlet" -> StateLoop(ms, off, map, FALSE, st, 0)
      [] step = "solveCouplingY" ->
             [ st EXCEPT
                 !.y = solveCouplingDOF(ms, fn, off, ZeroCoupling(@, off[Len(off)])),
                 !.log = @ \o << [ routine |-> "zeroCoupling", vec |-> "y" ],
                                 [ routine |-> "solveCouplingDOF", vec |-> "y" ] >> ]
      [] step = "stateInlet" -> StateLoop(ms, off, map, TRUE, st, 0)
      [] step = "residualWithJacobian" ->
             [ st EXCEPT
                 !.yDot = IF tag = "full"
                          THEN ResidualWithoutDerivative(ms, nf, fn, off, st.y) ELSE @,
                 !.temp = IF tag = "lean"
                          THEN ResidualWithoutDerivative(ms, nf, fn, off, st.y) ELSE @,
                 !.log = Append(@, [ routine |-> "residualWithJacobian",
                                     yDot |-> "nullptr" ]) ]
      [] step = "timeDerivative" ->
             TimeDerivativeLoop(ms, off, IF tag = "full" THEN st.yDot ELSE st.temp, st, 0)
      [] step = "solveCouplingYdot" ->
             [ st EXCEPT
                 !.yDot = solveCouplingDOF(ms, fn, off, ZeroCoupling(@, off[Len(off)])),
                 !.log = @ \o << [ routine |-> "zeroCoupling", vec |-> "yDot" ],
                                 [ routine |-> "solveCouplingDOF", vec |-> "yDot" ] >> ]

-----------------------------------------------------------------------------
(* Forward sensitivities *)

Scaled(v, alpha) == [ g \in 1..Len(v) |-> alpha * v[g] ]

\* multiplyWithJacobian(yS, alpha, beta, ret)
multiplyWithJacobian(nf, fn, off, yS, alpha, beta, ret) ==
    ConnectOutbound(fn, off, Scaled(yS, alpha),
        ConnectInbound(nf, off, Scaled(yS, alpha),
            [ g \in 1..Len(ret) |->
                IF g > off[Len(off)] THEN alpha * yS[g] + beta * ret[g] ELSE ret[g] ],
            off[Len(off)], 0),
        off[Len(off)], 0)

\* What the loop over the units leaves in tmp1 on entering with the contents
\* tmp1In: every unit writes (dF / dy) * s into its own slice.
Tmp1AfterUnits(ms, off, yS, tmp1In) == ResidualUnits(ms, off, yS, tmp1In, 0)

\* resS[param] at the end of residualSensFwdWithJacobianAlgorithm: the
\* slices written by the units, multiplyWithJacobian(yS[param], ptrResS) with
\* alpha = 1 and beta = 0, then the assignment of the coupling rows;
\* ad[k] is adRes[finalOffset + k - 1].getADValue(param).
SensResidualOfParam(ms, nf, fn, off, yS, tmp1, ad) ==
    [ g \in 1..Len(yS) |->
        IF g > off[Len(off)] THEN tmp1[g] + ad[g - off[Len(off)]]
        ELSE multiplyWithJacobian(nf, fn, off, yS, 1, 0,
                 ResidualUnits(ms, off, yS, Zeros(Len(yS)), 0))[g] ]

-----------------------------------------------------------------------------
(* InternalStorageUnitOpRecorder *)

\* A bracket, and the buffers it selects: the kind and the sensitivity index.
NullBracket == << "null", 0 >>
Bracket(kind, sensIdx) == << kind, sensIdx >>

\* The buffers that exist with n sensitivities.  The runs store outlet and
\* inlet values only (the other StorageConfig flags stay false).
BufferFamilies(n) ==
    { Bracket("solution", 0), Bracket("solutionDot", 0) }
        \cup { Bracket(kind, i) : kind \in {"sensitivity", "sensitivityDot"}, i \in 0..(n - 1) }
EmptyBuffers == [ outlet |-> <<>>, inlet |-> <<>> ]

StorageConfig(storeOutlet, storeInlet) ==
    [ storeOutlet |-> storeOutlet, storeInlet |-> storeInlet ]

\* The recorder after construction for unit idx.
InternalStorageUnitOpRecorder(idx) ==
    [ unitOp |-> idx,
      cfg |-> [ solution |-> StorageConfig(TRUE, FALSE),
                solutionDot |-> StorageConfig(FALSE, FALSE),
                sensitivity |-> StorageConfig(TRUE, FALSE),
                sensitivityDot |-> StorageConfig(TRUE, FALSE) ],
      cur |-> NullBracket,
      nComp |-> 0, numTimesteps |-> 0, numSens |-> 0, needsReAlloc |-> FALSE,
      buf |-> [ f \in BufferFamilies(0) |-> EmptyBuffers ] ]

\* clear()
clear(r) == [ r EXCEPT !.buf = [ f \in DOMAIN r.buf |-> EmptyBuffers ] ]

\* notifyIntegrationStart(numDofs, numSens, numTimesteps)
notifyIntegrationStart(r, numSens, numTimesteps) ==
    [ clear(r) EXCEPT
        !.needsReAlloc = (numSens # r.numSens) \/ (numTimesteps > r.numTimesteps),
        !.numTimesteps = numTimesteps,
        !.numSens = numSens,
        !.buf = IF numSens # r.numSens
                THEN [ f \in BufferFamilies(numSens) |-> EmptyBuffers ]
                ELSE clear(r).buf ]

\* unitOperationStructure(idx, model, exporter): with _needsReAlloc the
\* brackets are opened and closed one after the other to reserve memory.
unitOperationStructure(r, idx, exporter) ==
    IF idx # r.unitOp THEN r
    ELSE IF ~r.needsReAlloc
    THEN [ r EXCEPT !.nComp = exporter.numComponents, !.numTimesteps = 0 ]
    ELSE [ r EXCEPT !.nComp = exporter.numComponents, !.cur = NullBracket,
                    !.numTimesteps = 0 ]

\* beginTimestep(t); _storeTime is false.
beginTimestep(r) == [ r EXCEPT !.numTimesteps = @ + 1 ]

\* data[0], data[stride], ..., data[(n - 1) * stride]
Strided(data, stride, n) == [ i \in 1..n |-> data[(i - 1) * stride + 1] ]

\* What the push_back loops of beginUnitOperation append to the buffers b.
Appended(r, exporter, b) ==
    [ outlet |-> IF r.cfg[r.cur[1]].storeOutlet
                 THEN b.outlet \o Strided(exporter.outlet, exporter.outletStride, r.nComp)
                 ELSE b.outlet,
      inlet |-> IF r.cfg[r.cur[1]].storeInlet
                THEN b.inlet \o Strided(exporter.inlet, exporter.inletStride, r.nComp)
                ELSE b.inlet ]

\* Mutant: the data of every unit is recorded.
beginUnitOperationAnyUnit(r, idx, exporter) ==
    IF r.cur = NullBracket THEN r
    ELSE [ r EXCEPT !.buf[r.cur] = Appended(r, exporter, @) ]

\* beginUnitOperation(idx, model, exporter)
beginUnitOperation(r, idx, exporter) ==
    IF (idx # r.unitOp) \/ (r.cur = NullBracket) THEN r
    ELSE [ r EXCEPT !.buf[r.cur] = Appended(r, exporter, @) ]

\* beginSolution(), beginSolutionDerivative(), beginSensitivity(pId, sensIdx),
\* beginSensitivityDerivative(pId, sensIdx)
beginBracket(r, bracket) == [ r EXCEPT !.cur = bracket ]

\* endSolution(), to which the other three end calls forward.
endSolution(r) == [ r EXCEPT !.cur = NullBracket ]

\* Values held by all buffers together.
RECURSIVE StoredIn(_, _)
StoredIn(buf, families) ==
    IF families = {} THEN 0
    ELSE LET f == CHOOSE g \in families : TRUE
         IN  Len(buf[f].outlet) + Len(buf[f].inlet) + StoredIn(buf, families \ {f})
Stored(r) == StoredIn(r.buf, DOMAIN r.buf)

-----------------------------------------------------------------------------
(* Inputs *)

\* Unit operations of the test networks.
InletUnit(id, nComp) == Unit(id, nComp, FALSE, TRUE, FALSE)
OutletUnit(id, nComp) == Unit(id, nComp, TRUE, FALSE, FALSE)
ColumnUnit(id, nComp) == Unit(id, nComp, TRUE, TRUE, FALSE)
TankUnit(id, nComp) == Unit(id, nComp, TRUE, TRUE, TRUE)

\* Unit lists for the row checks: ids differ from array positions, component
\* counts differ, id 3 is not registered.
NetworksCheck ==
    { << InletUnit(0, 2), ColumnUnit(2, 2), OutletUnit(1, 1) >>,
      << TankUnit(1, 1), ColumnUnit(0, 2) >> }
ConnIdsCheck == {-1, 0, 1, 2, 3}
CompIdxCheck == {-1, 0, 1, 2}
RowsCheck == { <<s, d, cs, cd, 1>> : s \in ConnIdsCheck, d \in ConnIdsCheck,
                                      cs \in CompIdxCheck, cd \in CompIdxCheck }
TablesCheck == SeqsUpTo(RowsCheck, MaxRowsCheck)

\* Unit lists for the flow balance: all units have two components; in the
\* second list ids differ from array positions.
NetworksFlow ==
    { << InletUnit(0, 2), ColumnUnit(1, 2), OutletUnit(2, 2) >>,
      << ColumnUnit(1, 2), InletUnit(0, 2), TankUnit(2, 2) >> }
ConnIdsFlow == {0, 1, 2}
CompIdxFlow == {0, 1}
FlowValues == {-1, 0, 1, 2}
RowsFlow == { <<s, d, c, c, f>> : s \in ConnIdsFlow, d \in ConnIdsFlow,
                                   c \in CompIdxFlow, f \in FlowValues }
TablesFlow == SeqsUpTo(RowsFlow, MaxRowsFlow)

\* The network and the connection table of the switch-sequencing runs.
NetworkSwitch == << InletUnit(0, 2), ColumnUnit(1, 2), OutletUnit(2, 2) >>
TableSwitch == << <<0, 1, -1, -1, 1>>, <<1, 2, -1, -1, 1>> >>
SectionLists == SeqsUpTo(0..MaxSec, MaxSwitches)
\* The lists given to reconfigure(): those that never decrease.
SectionListsSorted ==
    { secs \in SectionLists : \A i \in 1..(Len(secs) - 1) : secs[i] <= secs[i + 1] }
SwitchConfig(secs) == [ i \in 1..Len(secs) |-> [ section |-> secs[i], conn |-> TableSwitch ] ]

\* Units offered to addModel and connections groups read by (re)configure in
\* the layout runs: one switch, with no connection or with one from unit 0 to
\* unit 1.
UnitsLayout == { InletUnit(0, 1), ColumnUnit(1, 1), ColumnUnit(0, 2), OutletUnit(1, 2) }
ConfigsLayout ==
    { << [ section |-> 0, conn |-> <<>> ] >>,
      << [ section |-> 0, conn |-> << <<0, 1, 0, 0, 1>> >> ] >> }

\* Unit lists of the assembly runs: two sources feeding one unit, and a chain
\* whose ids differ from the array positions.  The rows connect the units in
\* ascending id order, all components (-1), one component, or a negative
\* component index other than -1, which the row checks let through like -1.
NetworksAsm ==
    { << InletUnit(0, 2), InletUnit(1, 2), OutletUnit(2, 2) >>,
      << ColumnUnit(1, 2), InletUnit(0, 2), OutletUnit(2, 2) >> }
PairsAsm == { <<0, 1>>, <<1, 2>>, <<0, 2>> }
CompsAsm == { <<-1, -1>>, <<0, 0>>, <<1, 1>>, <<-2, -2>> }
FlowValuesAsm == {0, 1, 2}
RowsAsm == { <<p[1], p[2], c[1], c[2], f>> : p \in PairsAsm, c \in CompsAsm,
                                              f \in FlowValuesAsm }
TablesAsm == SeqsUpTo(RowsAsm, MaxRowsAsm)
ConfigsAsm == { << [ section |-> 0, conn |-> T ] >> : T \in TablesAsm }

\* The residual runs: two sources feed a unit that feeds a sink; all
\* components or one component connected; state values 0 and 2, on which the
\* flow weights 1 and 1/2 give integers; at most one unit reports a status
\* other than 0.
NetworkRes == << InletUnit(0, 1), InletUnit(1, 1), ColumnUnit(2, 1), OutletUnit(3, 1) >>
ConfigsRes ==
    { << [ section |-> 0,
           conn |-> << <<0, 2, -1, -1, 1>>, <<1, 2, -1, -1, 1>>, <<2, 3, -1, -1, 2>> >> ] >>,
      << [ section |-> 0,
           conn |-> << <<0, 2, 0, 0, 2>>, <<2, 3, 0, 0, 2>> >> ] >> }
StateValuesRes == {0, 2}
StatesRes(n) == [ 1..n -> StateValuesRes ]
UnitCodesRes == {-1, 1}
CodeListsRes(n) ==
    { [ k \in 1..n |-> 0 ] } \cup
    { [ k \in 1..n |-> IF k = u THEN c ELSE 0 ] : u \in 1..n, c \in UnitCodesRes }

\* The linear-solve runs: a source feeds a unit that feeds a sink, or only
\* the first connection exists; one component, so the flow weights are 1.
\* Right-hand sides: the unit vectors, zero and all ones.  Every local solve
\* and the Krylov solve return a status among SolveCodes.
NetworkSolve == << InletUnit(0, 1), ColumnUnit(1, 1), OutletUnit(2, 1) >>
ConfigsSolve ==
    { << [ section |-> 0, conn |-> << <<0, 1, -1, -1, 1>>, <<1, 2, -1, -1, 1>> >> ] >>,
      << [ section |-> 0, conn |-> << <<0, 1, 0, 0, 2>> >> ] >> }
RhsSolve(n) ==
    { [ k \in 1..n |-> IF k = j THEN 1 ELSE 0 ] : j \in 0..n } \cup { [ k \in 1..n |-> 1 ] }
SolveCodes == {-2, -1, 0, 1}
CodeListsSolve(n) == [ 1..n -> SolveCodes ]
MatVecCodes(n) == SeqsUpTo(CodeListsSolve(n), MaxMatVec)

\* The parallel runs: a source feeds two through-units that feed one sink,
\* one component, all flow rates 1, so both through-units contribute to the
\* coupling row of the sink with weight 1/2.  The units are registered in
\* order, or the second through-unit is removed and registered again.
\* Vectors x of the matrix-vector product hold 0 and 2; a unit returns the
\* status 0 or -1.
SourcePar == InletUnit(0, 1)
ThroughPar(id) == ColumnUnit(id, 1)
SinkPar == OutletUnit(3, 1)
AddStep(unitOp) == [ op |-> "addModel", unitOp |-> unitOp ]
RemoveStep(id) == [ op |-> "removeModel", unitOp |-> id ]
HistoriesPar ==
    { << AddStep(SourcePar), AddStep(ThroughPar(1)), AddStep(ThroughPar(2)),
         AddStep(SinkPar) >>,
      << AddStep(SourcePar), AddStep(ThroughPar(1)), AddStep(ThroughPar(2)),
         RemoveStep(2), AddStep(ThroughPar(2)), AddStep(SinkPar) >> }
ConfigsPar ==
    { << [ section |-> 0,
           conn |-> << <<0, 1, -1, -1, 1>>, <<0, 2, -1, -1, 1>>,
                       <<1, 3, -1, -1, 1>>, <<2, 3, -1, -1, 1>> >> ] >> }
PhasesPar == { "residual", "localSolve", "schurMatVec", "backSubstitution" }
XValuesPar == {0, 2}
XsPar(phase, n) == IF phase = "schurMatVec" THEN [ 1..n -> XValuesPar ] ELSE { <<>> }
UnitCodesPar == {-1, 0}

\* The initialization runs: the chain of the linear-solve runs, registered in
\* the order of the flow or with the through-unit first, the chain source ->
\* sink, and the two sources feeding one unit of the residual runs; each
\* list with the connection tables that name its units; state vectors over
\* 0 and 2; both fidelities.
ChainConsistent == << InletUnit(0, 1), OutletUnit(1, 1) >>
TableChainConsistent == << <<0, 1, -1, -1, 1>> >>
NetworksConsistent ==
    { NetworkSolve, << ColumnUnit(1, 1), InletUnit(0, 1), OutletUnit(2, 1) >>,
      ChainConsistent, NetworkRes }
ConfigsConsistent ==
    ConfigsSolve \cup ConfigsRes \cup { << [ section |-> 0, conn |-> TableChainConsistent ] >> }
StatesConsistent(n) == [ 1..n -> {0, 2} ]
TagsConsistent == { "full", "lean" }

\* The sensitivity runs, on the network of the residual runs: per parameter
\* a sensitivity vector (zero, all 2, or 2 in one place) and the derivatives
\* held by the dual-valued coupling residual; tmp1 arrives with 0 or 1 in
\* the coupling places, which no statement of the call writes.
SensVectors(n) ==
    { [ g \in 1..n |-> v ] : v \in {0, 2} }
        \cup { [ g \in 1..n |-> IF g = j THEN 2 ELSE 0 ] : j \in 1..n }
SensInputs(n) == { p \in SeqsUpTo(SensVectors(n), MaxSens) : Len(p) > 0 }
AdValues(nSens, k) == [ 1..nSens -> [ 1..k -> {0, 1} ] ]
StaleValues(n, finalOffset) ==
    { t \in [ 1..n -> {0, 1} ] : \A g \in 1..finalOffset : t[g] = 0 }

\* The registration runs, on the unit lists of the assembly runs: one switch
\* with up to MaxRowsReg rows, or two switches with up to two rows each; a
\* pair may recur with another component and another flow rate.
CompsReg == { <<0, 0>>, <<1, 1>> }
FlowValuesReg == {1, 2}
RowsReg(Pairs) ==
    { <<p[1], p[2], c[1], c[2], f>> : p \in Pairs, c \in CompsReg, f \in FlowValuesReg }
ConfigsReg ==
    { << [ section |-> 0, conn |-> T ] >> : T \in SeqsUpTo(RowsReg(PairsAsm), MaxRowsReg) }
    \cup { << [ section |-> 0, conn |-> T1 ], [ section |-> 1, conn |-> T2 ] >> :
             T1 \in SeqsUpTo(RowsReg({ <<0, 2>> }), MaxRowsReg - 1),
             T2 \in SeqsUpTo(RowsReg({ <<0, 2>>, <<1, 2>> }), MaxRowsReg - 1) }

\* The parameter runs, on the units of the switch runs: connections groups
\* with one switch, with two, and with one whose second row repeats the pair
\* of the first; ids of flow rates and of one parameter of the units, asked
\* for by unit id or unit-independently; a set parameter gets the value 2.
TableRepeated == << <<0, 1, 0, 0, 1>>, <<0, 1, 1, 1, 1>>, <<1, 2, -1, -1, 1>> >>
ConfigsParam ==
    { SwitchConfig(<<0>>), SwitchConfig(<<0, 1>>),
      << [ section |-> 0, conn |-> TableRepeated ] >> }
UnitParamId(u) ==
    [ name |-> "UNIT_PARAM", unitOperation |-> u, source |-> -1, dest |-> -1, switch |-> -1 ]
ParamIds ==
    { FlowParamId(p[1], p[2], i) : p \in PairsAsm, i \in 0..1 }
        \cup { UnitParamId(u) : u \in { UnitOpIndep, 0, 1, 2 } }
ParamValues == {2}

\* The recorder runs: the recorder is made for unit 1 and is told about units
\* 1 and 2; the recorded unit has one or two components, its outlet values
\* lie two places apart, its inlet values side by side; all four parts store
\* the outlet, or solution and sensitivity store the inlet as well.
RecordedUnit == 1
ReportedUnits == {1, 2}
Exporter(n) ==
    [ numComponents |-> n, outletStride |-> 2, inletStride |-> 1,
      outlet |-> SubSeq(<<11, 0, 12, 0>>, 1, 2 * n), inlet |-> SubSeq(<<21, 22>>, 1, n) ]
NoExporter == Exporter(0)
Exporters == { Exporter(1), Exporter(2) }
StorageConfigs ==
    { [ solution |-> StorageConfig(TRUE, FALSE), solutionDot |-> StorageConfig(TRUE, FALSE),
        sensitivity |-> StorageConfig(TRUE, FALSE),
        sensitivityDot |-> StorageConfig(TRUE, FALSE) ],
      [ solution |-> StorageConfig(TRUE, TRUE), solutionDot |-> StorageConfig(FALSE, FALSE),
        sensitivity |-> StorageConfig(TRUE, TRUE),
        sensitivityDot |-> StorageConfig(TRUE, FALSE) ] }
SensCounts == {0, 1}
BeginCalls == { "beginSolution", "beginSolutionDerivative", "beginSensitivity",
                "beginSensitivityDerivative" }
EndCalls == { "endSolution", "endSolutionDerivative", "endSensitivity",
              "endSensitivityDerivative" }
BracketOf(opName, sensIdx) ==
    Bracket(CASE opName = "beginSolution" -> "solution"
              [] opName = "beginSolutionDerivative" -> "solutionDot"
              [] opName = "beginSensitivity" -> "sensitivity"
              [] opName = "beginSensitivityDerivative" -> "sensitivityDot", sensIdx)

NoCall == [ op |-> "none" ]

-----------------------------------------------------------------------------
(* Initial states *)

\* _inOutModels after addModel has been called for the units of ms in order.
InOutAfterAdding(ms) ==
    SelectSeq([ i \in 1..Len(ms) |-> i - 1 ],
              LAMBDA i : ms[i + 1].hasInlet /\ ms[i + 1].hasOutlet)

\* _models and _inOutModels after the calls history[k], history[k + 1], ...
\* of addModel and removeModel on the lists ms and inOut.
RECURSIVE Built(_, _, _, _)
Built(history, k, ms, inOut) ==
    IF k > Len(history) THEN [ models |-> ms, inOut |-> inOut ]
    ELSE IF history[k].op = "removeModel"
    THEN Built(history, k + 1,
               SelectSeq(ms, LAMBDA m : m.unitOperationId # history[k].unitOp), inOut)
    ELSE IF indexOfUnitOp(ms, history[k].unitOp.unitOperationId) < Len(ms)
    THEN Built(history, k + 1, ms, inOut)
    ELSE Built(history, k + 1, Append(ms, history[k].unitOp),
               IF history[k].unitOp.hasInlet /\ history[k].unitOp.hasOutlet
               THEN Append(inOut, Len(ms)) ELSE inOut)

\* A ModelSystem holding the units ms and the list inOut, not configured.
ConstructedWith(ms, inOut) ==
    /\ models = ms
    /\ paramProvider = <<>>
    /\ switchSectionIndex = <<>>
    /\ connections = <<>>
    /\ flowRates = <<>>
    /\ curSwitchIndex = 0
    /\ configured = "no"
    /\ nextInOrder = -1
    /\ connIn = <<>>
    /\ call = NoCall
    /\ exc = NoError
    /\ inOutModels = inOut
    /\ dofOffset = <<>>
    /\ couplingIdxMap = <<>>
    /\ jacNF = <<>>
    /\ jacFN = <<>>
    /\ totalInletFlow = <<>>
    /\ parameters = {}
    /\ sensParams = {}
    /\ recorder = InternalStorageUnitOpRecorder(RecordedUnit)
    /\ recorderLog = [ open |-> NullBracket, steps |-> 0, exporter |-> NoExporter ]

\* A ModelSystem to which the units of ms have been added, not configured.
Constructed(ms) == ConstructedWith(ms, InOutAfterAdding(ms))

Init ==
    /\ Constructed(NetworkSwitch)
    /\ errorIndicator = [ i \in 1..Len(NetworkSwitch) |-> 0 ]
    /\ curCode = 0

InitFuse ==
    /\ Constructed(<<>>)
    /\ errorIndicator \in SeqsUpTo(Codes, MaxErrLen)
    /\ curCode \in Codes

InitConn ==
    /\ \E ms \in NetworksCheck : Constructed(ms)
    /\ errorIndicator = <<>>
    /\ curCode = 0

InitLayout ==
    /\ Constructed(<<>>)
    /\ errorIndicator = <<>>
    /\ curCode = 0

InitAsm ==
    /\ \E ms \in NetworksAsm : Constructed(ms)
    /\ errorIndicator = <<>>
    /\ curCode = 0

InitRes ==
    /\ Constructed(NetworkRes)
    /\ errorIndicator = <<>>
    /\ curCode = 0

InitSolve ==
    /\ Constructed(NetworkSolve)
    /\ errorIndicator = <<>>
    /\ curCode = 0

InitPar ==
    /\ \E history \in HistoriesPar :
           ConstructedWith(Built(history, 1, <<>>, <<>>).models,
                           Built(history, 1, <<>>, <<>>).inOut)
    /\ errorIndicator = <<>>
    /\ curCode = 0

InitConsistent ==
    /\ \E ms \in NetworksConsistent : Constructed(ms)
    /\ errorIndicator = <<>>
    /\ curCode = 0

InitFlow ==
    /\ \E ms \in NetworksFlow : Constructed(ms)
    /\ errorIndicator = <<>>
    /\ curCode = 0

-----------------------------------------------------------------------------
(* Actions *)

recorderVars == << recorder, recorderLog >>
layoutVars == << inOutModels, dofOffset, couplingIdxMap >>
matrixVars == << jacNF, jacFN, totalInletFlow >>
systemVars == << models, paramProvider, switchSectionIndex, connections, flowRates,
                 curSwitchIndex, configured, nextInOrder, layoutVars, matrixVars,
                 parameters, sensParams, recorderVars >>
modelSystemVars == << models, paramProvider, switchSectionIndex, connections, flowRates,
                      curSwitchIndex, configured, nextInOrder, layoutVars, matrixVars,
                      parameters, sensParams, errorIndicator, curCode, connIn >>

\* return totalErrorIndicatorFromLocal(_errorIndicator)
FuseLocal ==
    /\ call' = [ op |-> "totalErrorIndicatorFromLocal", arg |-> errorIndicator,
                 ret |-> totalErrorIndicatorFromLocal(errorIndicator) ]
    /\ exc' = NoError
    /\ UNCHANGED << systemVars, errorIndicator, curCode, connIn >>

\* curCode = updateErrorIndicator(curCode, nextCode)
FusePair ==
    \E nextCode \in Codes :
        /\ curCode' = updateErrorIndicator(curCode, nextCode)
        /\ call' = [ op |-> "updateErrorIndicator", arg |-> <<curCode, nextCode>>,
                     ret |-> updateErrorIndicator(curCode, nextCode) ]
        /\ exc' = NoError
        /\ UNCHANGED << systemVars, errorIndicator, connIn >>

\* checkConnectionList(conn, connOnly, flowRates, idxSwitch): r is what the
\* call leaves in its locals and output arguments.
CheckReturns(conn, r) ==
    /\ connIn' = conn
    /\ call' = [ op |-> "checkConnectionList", ret |-> r ]
    /\ exc' = IF r.error = NoError THEN NoError ELSE InvalidParameterException
    /\ UNCHANGED << systemVars, errorIndicator, curCode >>

CheckCall(T) ==
    /\ call = NoCall
    /\ \E conn \in T : CheckReturns(conn, CheckConnectionList(models, conn))

CheckRowsCall == CheckCall(TablesCheck)
CheckFlowCall == CheckCall(TablesFlow)

\* What configureSwitches(paramProvider) with outcome r leaves in the object.
SwitchesConfigured(cfg, r, opName) ==
    /\ paramProvider' = cfg
    /\ switchSectionIndex' = r.sec
    /\ connections' = r.conns
    /\ flowRates' = r.frs
    /\ parameters' = r.params
    /\ UNCHANGED << sensParams, recorderVars >>
    /\ exc' = IF r.error = NoError THEN NoError ELSE InvalidParameterException
    /\ call' = [ op |-> opName, error |-> r.error, assembled |-> FALSE ]
    /\ nextInOrder' = -1

\* configure(): rebuildInternalDataStructures, configureSwitches, then
\* _curSwitchIndex = 0 and the allocations, which an exception skips.  It is
\* called once, on the constructed object.
ConfigureWith(cfg, r) ==
    /\ SwitchesConfigured(cfg, r, "configure")
    /\ dofOffset' = DofOffsetLoop(models, 0, 0)
    /\ couplingIdxMap' = CouplingMapLoop(models, 0, 0, <<>>, 0)
    /\ errorIndicator' = Resize(errorIndicator, Len(models))
    /\ curSwitchIndex' = IF r.error = NoError THEN 0 ELSE curSwitchIndex
    /\ jacNF' = IF r.error = NoError THEN ClearedMatrices(models) ELSE jacNF
    /\ jacFN' = IF r.error = NoError THEN ClearedMatrices(models) ELSE jacFN
    /\ totalInletFlow' = IF r.error = NoError THEN Resize(totalInletFlow, Len(models))
                                              ELSE totalInletFlow
    /\ configured' = IF r.error = NoError THEN "ok"
                     ELSE IF configured = "no" THEN "no" ELSE "failed"
    /\ UNCHANGED << models, inOutModels, curCode, connIn >>

\* configure() reading one of the connections groups Cfgs.
ConfigureOver(Cfgs) ==
    \E cfg \in Cfgs, firstIfEmpty \in {0, 1} :
        /\ (Len(cfg) > 0 => firstIfEmpty = 0)
        /\ ConfigureWith(cfg, ConfigureSwitches(models, cfg, firstIfEmpty))

Configure ==
    /\ call = NoCall
    /\ ConfigureOver({ SwitchConfig(secs) : secs \in SectionLists })

\* reconfigure(): configureSwitches; _curSwitchIndex is left alone.
ReconfigureWith(cfg, r) ==
    /\ SwitchesConfigured(cfg, r, "reconfigure")
    /\ configured' = IF r.error = NoError THEN "ok" ELSE "failed"
    /\ UNCHANGED << models, curSwitchIndex, errorIndicator, curCode, connIn,
                    layoutVars, matrixVars >>

\* reconfigure() reading one of the connections groups Cfgs.
ReconfigureOver(Cfgs) ==
    /\ configured # "no"
    /\ \E cfg \in Cfgs, firstIfEmpty \in {0, 1} :
        /\ (Len(cfg) > 0 => firstIfEmpty = 0)
        /\ ReconfigureWith(cfg, ConfigureSwitches(models, cfg, firstIfEmpty))

Reconfigure == ReconfigureOver({ SwitchConfig(secs) : secs \in SectionListsSorted })

\* notifyDiscontinuousSectionTransition(t, secIdx, ...): prevSwitch is
\* _curSwitchIndex after the reset for section 0, newSwitch after the update.
MatricesAssembled(a) ==
    /\ jacNF' = a.nf
    /\ jacFN' = a.out.fn
    /\ couplingIdxMap' = a.out.map
    /\ totalInletFlow' = a.total

NotifyWith(secIdx, prevSwitch, newSwitch) ==
    /\ curSwitchIndex' = newSwitch
    /\ call' = [ op |-> "notifyDiscontinuousSectionTransition",
                 secIdx |-> secIdx, before |-> curSwitchIndex,
                 assembled |-> AssembleNeeded(secIdx, prevSwitch, newSwitch) ]
    /\ nextInOrder' = IF (secIdx = 0) \/ (secIdx = nextInOrder) THEN secIdx + 1 ELSE -1
    /\ exc' = NoError
    /\ IF AssembleNeeded(secIdx, prevSwitch, newSwitch)
       THEN MatricesAssembled(
                assembleSuperStructMatrices(models, connections[newSwitch + 1],
                    flowRates[newSwitch + 1], couplingIdxMap,
                    TotalInletLoop(connections[newSwitch + 1], flowRates[newSwitch + 1],
                                   0, ZeroFilled(totalInletFlow))))
       ELSE UNCHANGED << jacNF, jacFN, couplingIdxMap, totalInletFlow >>
    /\ UNCHANGED << models, paramProvider, switchSectionIndex, connections, flowRates,
                    configured, errorIndicator, curCode, connIn, inOutModels, dofOffset,
                    parameters, sensParams, recorderVars >>

\* With no switch the code divides by zero, and after a (re)configuration that
\* threw the slice of the switch may not exist; the model takes no step there.
Notify ==
    /\ configured # "no"
    /\ Len(switchSectionIndex) > 0
    /\ \E secIdx \in 0..MaxSec :
        /\ AdvanceSwitch(switchSectionIndex, curSwitchIndex, secIdx) < Len(connections)
        /\ NotifyWith(secIdx, IF secIdx = 0 THEN 0 ELSE curSwitchIndex,
                      AdvanceSwitch(switchSectionIndex, curSwitchIndex, secIdx))

\* Mutant: addModel without the check for an existing unit operation id.
AddModelUnchecked ==
    /\ Len(models) < MaxModels
    /\ Len(inOutModels) < MaxModels
    /\ \E unitOp \in UnitsLayout :
        /\ call' = [ op |-> "addModel", arg |-> unitOp ]
        /\ exc' = NoError
        /\ models' = Append(models, unitOp)
        /\ inOutModels' = IF unitOp.hasInlet /\ unitOp.hasOutlet
                          THEN Append(inOutModels, Len(models))
                          ELSE inOutModels
    /\ UNCHANGED << paramProvider, switchSectionIndex, connections, flowRates,
                    curSwitchIndex, configured, nextInOrder, dofOffset, couplingIdxMap,
                    matrixVars, errorIndicator, curCode, connIn, parameters, sensParams,
                    recorderVars >>

\* addModel(unitOp).  _inOutModels only ever grows (removeModel leaves it
\* alone); the runs stop adding units once it holds MaxModels entries.
AddModel ==
    /\ Len(models) < MaxModels
    /\ Len(inOutModels) < MaxModels
    /\ \E unitOp \in UnitsLayout :
        /\ call' = [ op |-> "addModel", arg |-> unitOp ]
        /\ IF indexOfUnitOp(models, unitOp.unitOperationId) < Len(models)
           THEN /\ exc' = InvalidParameterException
                /\ UNCHANGED << models, inOutModels >>
           ELSE /\ exc' = NoError
                /\ models' = Append(models, unitOp)
                /\ inOutModels' = IF unitOp.hasInlet /\ unitOp.hasOutlet
                                  THEN Append(inOutModels, Len(models))
                                  ELSE inOutModels
    /\ UNCHANGED << paramProvider, switchSectionIndex, connections, flowRates,
                    curSwitchIndex, configured, nextInOrder, dofOffset, couplingIdxMap,
                    matrixVars, errorIndicator, curCode, connIn, parameters, sensParams,
                    recorderVars >>

\* removeModel(unitOp): the first unit with the id is erased from _models.
RemoveModel ==
    \E unitOp \in { models[i].unitOperationId : i \in 1..Len(models) } :
        /\ models' = [ i \in 1..(Len(models) - 1) |->
                          IF i <= indexOfUnitOp(models, unitOp) THEN models[i]
                          ELSE models[i + 1] ]
        /\ call' = [ op |-> "removeModel", arg |-> unitOp ]
        /\ exc' = NoError
        /\ UNCHANGED << paramProvider, switchSectionIndex, connections, flowRates,
                        curSwitchIndex, configured, nextInOrder, layoutVars,
                        matrixVars, errorIndicator, curCode, connIn, parameters,
                        sensParams, recorderVars >>

ConfigureLayout == ConfigureOver(ConfigsLayout)
ConfigureRes == (call = NoCall) /\ ConfigureOver(ConfigsRes)

\* residual(t, secIdx, timeFactor, y, yDot, res): local is res after the loop
\* over the units, res after residualConnectUnitOps, codes what the units
\* returned.
ResidualWith(y, codes, local, res) ==
    /\ errorIndicator' = codes
    /\ call' = [ op |-> "residual", y |-> y, local |-> local, res |-> res,
                 ret |-> totalErrorIndicatorFromLocal(codes) ]
    /\ exc' = NoError
    /\ UNCHANGED << systemVars, curCode, connIn >>

ResidualFrom(y, codes, local) ==
    ResidualWith(y, codes, local,
        residualConnectUnitOps(jacNF, jacFN, dofOffset, y, local, Len(y)))

\* A call changes nothing but _errorIndicator, which the next call overwrites:
\* the runs do not evaluate a second residual right after one.
Residual ==
    /\ configured = "ok"
    /\ call.op # "residual"
    /\ \E y \in StatesRes(numDofs(dofOffset, couplingIdxMap, 0)),
          codes \in CodeListsRes(Len(models)) :
        ResidualFrom(y, codes, ResidualUnits(models, dofOffset, y, Zeros(Len(y)), 0))
ConfigureAsm == (call = NoCall) /\ ConfigureOver(ConfigsAsm)
ReconfigureLayout == ReconfigureOver(ConfigsLayout)

ConfigureReg == (call = NoCall) /\ ConfigureOver(ConfigsReg)

ConfigureSolve == (call = NoCall) /\ ConfigureOver(ConfigsSolve)

\* The section transition that follows configure() in the linear-solve runs.
NotifySolve == (call.op = "configure") /\ Notify

\* linearSolve(..., rhs, ...) step by step: pc is the step finished last,
\* rhsIn the right-hand side passed in, rhs the vector as it is now, seen the
\* status codes returned so far by the local solves and the Krylov solve.
LinearSolveStep(pc, rhsIn, rhs, curError, seen, ret) ==
    /\ call' = [ op |-> "linearSolve", pc |-> pc, rhsIn |-> rhsIn, rhs |-> rhs,
                 curError |-> curError, seen |-> seen, ret |-> ret ]
    /\ exc' = NoError
    /\ UNCHANGED << systemVars, curCode, connIn >>

\* The loop of local solves.
SolveLocally ==
    /\ configured = "ok"
    /\ call.op = "notifyDiscontinuousSectionTransition"
    /\ \E rhs \in RhsSolve(numDofs(dofOffset, couplingIdxMap, 0)),
          codes \in CodeListsSolve(Len(models)) :
        /\ errorIndicator' = codes
        /\ LinearSolveStep("localSolves", rhs, LocalSolves(models, dofOffset, rhs, 0),
                           0, CodesOf(codes), 0)

\* The loop rhs[coupling] -= _jacFN[i] * rhs[unit i].
ForwardEliminate ==
    /\ call.op = "linearSolve"
    /\ call.pc = "localSolves"
    /\ UNCHANGED errorIndicator
    /\ LinearSolveStep("forwardElimination", call.rhsIn,
                       ForwardElimination(jacFN, dofOffset, call.rhs, 0),
                       0, call.seen, 0)

\* curError, the reset of _errorIndicator, _gmres.solve and the fill of
\* _errorIndicator: x is the solution, mvs the unit codes of the
\* matrix-vector products evaluated, own the status of the Krylov method.
SchurSolveWith(x, mvs, own, curError) ==
    /\ errorIndicator' =
           [ i \in 1..Len(errorIndicator) |->
               updateErrorIndicator(curError,
                   GmresResult([ j \in 1..Len(errorIndicator) |-> 0 ],
                               inOutModels, mvs, 1, own)) ]
    /\ LinearSolveStep("schurSolve", call.rhsIn,
                       WithSlice(call.rhs, dofOffset[Len(dofOffset)], Len(x), x),
                       curError,
                       call.seen \cup {own}
                           \cup UNION { CodesOf(mvs[k]) : k \in 1..Len(mvs) },
                       0)

SchurSolve ==
    /\ call.op = "linearSolve"
    /\ call.pc = "forwardElimination"
    /\ \E x \in { GmresSolve(models, inOutModels, jacNF, jacFN,
                             Slice(call.rhs, dofOffset[Len(dofOffset)],
                                   numCouplingDOF(couplingIdxMap))) },
          mvs \in MatVecCodes(Len(inOutModels)), own \in SolveCodes :
        SchurSolveWith(x, mvs, own, totalErrorIndicatorFromLocal(errorIndicator))

\* The loop of the back substitution and the return.
BackSubstituteWith(codes, err) ==
    /\ errorIndicator' = err
    /\ LinearSolveStep("backSubstitution", call.rhsIn,
                       BackSubstitution(models, jacNF, dofOffset, call.rhs, 0),
                       call.curError, call.seen \cup CodesOf(codes),
                       totalErrorIndicatorFromLocal(err))

BackSubstitute ==
    /\ call.op = "linearSolve"
    /\ call.pc = "schurSolve"
    /\ \E codes \in CodeListsSolve(Len(models)) :
        BackSubstituteWith(codes, UpdatedIndicators(errorIndicator, codes))

ConfigurePar == (call = NoCall) /\ ConfigureOver(ConfigsPar)
NotifyPar == (call.op = "configure") /\ Notify

\* A tbb::parallel_for starts: every task is before its first statement.
\* For schurComplementMatrixVector z has been set to x and the unit part of
\* _tempState is zero (linearSolve, before _gmres.solve).
BeginParallel ==
    /\ configured = "ok"
    /\ call.op = "notifyDiscontinuousSectionTransition"
    /\ \E phase \in PhasesPar :
         \E x \in XsPar(phase, numCouplingDOF(couplingIdxMap)) :
            call' = [ op |-> "parallel_for", phase |-> phase,
                      tasks |-> TaskUnits(phase, models, inOutModels),
                      pc |-> [ k \in 1..Len(TaskUnits(phase, models, inOutModels)) |-> 0 ],
                      mutex |-> 0, x |-> x, z |-> x,
                      temp |-> Zeros(numDofs(dofOffset, couplingIdxMap, 0)),
                      joined |-> FALSE ]
    /\ exc' = NoError
    /\ UNCHANGED << systemVars, errorIndicator, curCode, connIn >>

\* Task k runs its next statement, step, for unit idxModel; code is what the
\* unit returned.
TaskRuns(k, step, idxModel, code) ==
    /\ call' = [ call EXCEPT
                   !.pc[k] = @ + 1,
                   !.mutex = IF step = "lock" THEN k
                             ELSE IF step = "unlock" THEN 0 ELSE @,
                   !.temp = IF call.phase = "schurMatVec"
                            THEN TempAfter(step, models, jacNF, dofOffset, call.x, @, idxModel)
                            ELSE @,
                   !.z = IF call.phase = "schurMatVec"
                         THEN ZAfter(step, jacFN, dofOffset, call.temp, @, idxModel)
                         ELSE @ ]
    /\ errorIndicator' =
           IF step # "status" THEN errorIndicator
           ELSE [ errorIndicator EXCEPT ![idxModel + 1] =
                    IF call.phase \in {"residual", "localSolve"} THEN code
                    ELSE updateErrorIndicator(@, code) ]
    /\ exc' = NoError
    /\ UNCHANGED << systemVars, curCode, connIn >>

TaskStep ==
    /\ call.op = "parallel_for"
    /\ \E k \in 1..Len(call.tasks) :
        /\ call.pc[k] < Len(Program(call.phase))
        /\ (Program(call.phase)[call.pc[k] + 1] = "lock") => MutexFree(call.mutex)
        /\ \E code \in IF Program(call.phase)[call.pc[k] + 1] = "status"
                       THEN UnitCodesPar ELSE {0} :
             TaskRuns(k, Program(call.phase)[call.pc[k] + 1], call.tasks[k], code)

\* tbb::parallel_for returns once every task has finished; the statements
\* after the loop run from then on.
Join ==
    /\ call.op = "parallel_for"
    /\ ~call.joined
    /\ \A k \in 1..Len(call.tasks) : call.pc[k] = Len(Program(call.phase))
    /\ call' = [ call EXCEPT !.joined = TRUE ]
    /\ exc' = NoError
    /\ UNCHANGED << systemVars, errorIndicator, curCode, connIn >>

ConfigureConsistent == (call = NoCall) /\ ConfigureOver(ConfigsConsistent)
NotifyConsistent == (call.op = "configure") /\ Notify

\* consistentInitialConditions (tag "full") or leanConsistentInitialConditions
\* (tag "lean") is entered with the vectors vecStateY and vecStateYdot.
BeginConsistentInit ==
    /\ configured = "ok"
    /\ call.op = "notifyDiscontinuousSectionTransition"
    /\ \E tag \in TagsConsistent,
          y \in StatesConsistent(numDofs(dofOffset, couplingIdxMap, 0)) :
        call' = [ op |-> "consistentInitialConditions", tag |-> tag, pc |-> 0,
                  st |-> [ y |-> y, yDot |-> Zeros(Len(y)), temp |-> Zeros(Len(y)),
                           log |-> <<>> ] ]
    /\ exc' = NoError
    /\ UNCHANGED << systemVars, errorIndicator, curCode, connIn >>

\* The next statement of consistentInitialConditionAlgorithm.
ConsistentInitStep ==
    /\ call.op = "consistentInitialConditions"
    /\ call.pc < Len(ConsistentInitSteps)
    /\ call' = [ call EXCEPT
                   !.pc = @ + 1,
                   !.st = InitAfter(ConsistentInitSteps[call.pc + 1], call.tag, models,
                                    jacNF, jacFN, dofOffset, couplingIdxMap, @) ]
    /\ exc' = NoError
    /\ UNCHANGED << systemVars, errorIndicator, curCode, connIn >>

\* residualSensFwd / residualSensFwdWithJacobian(nSens, ..., yS, ySdot, resS,
\* adRes, ..., tmp1, tmp2, tmp3): tmp1In is tmp1 as the caller passes it.
ResidualSensWith(yS, ad, tmp1In, tmp1) ==
    /\ call' = [ op |-> "residualSensFwd", yS |-> yS, ad |-> ad, tmp1In |-> tmp1In,
                 resS |-> [ param \in 1..Len(yS) |->
                              SensResidualOfParam(models, jacNF, jacFN, dofOffset,
                                                  yS[param], tmp1, ad[param]) ] ]
    /\ exc' = NoError
    /\ UNCHANGED << systemVars, errorIndicator, curCode, connIn >>

\* The runs evaluate one sensitivity residual after the section transition.
ResidualSens ==
    /\ configured = "ok"
    /\ call.op = "notifyDiscontinuousSectionTransition"
    /\ \E yS \in SensInputs(numDofs(dofOffset, couplingIdxMap, 0)),
          tmp1In \in StaleValues(numDofs(dofOffset, couplingIdxMap, 0), dofOffset[Len(dofOffset)]) :
        \E ad \in AdValues(Len(yS), numCouplingDOF(couplingIdxMap)) :
            ResidualSensWith(yS, ad, tmp1In,
                Tmp1AfterUnits(models, dofOffset, yS[Len(yS)], tmp1In))

NotifySens == (call.op = "configure") /\ Notify

ConfigureParam == (call = NoCall) /\ ConfigureOver(ConfigsParam)
ReconfigureParam == ReconfigureOver(ConfigsParam)

\* setSensitiveParameter(pId, adDirection, adValue); unitFound tells whether
\* setSensitiveParameter of a unit the call is handed to returns true.
SetSensitiveParameterWith(pId, unitFound) ==
    /\ sensParams' = IF pId.unitOperation = UnitOpIndep
                     THEN sensParams \cup HandlesOf(parameters, pId)
                     ELSE sensParams
    /\ call' = [ op |-> "setSensitiveParameter", pId |-> pId,
                 ret |-> \/ (pId.unitOperation = UnitOpIndep) /\ (HandlesOf(parameters, pId) # {})
                         \/ unitFound ]
    /\ exc' = NoError
    /\ UNCHANGED << models, paramProvider, switchSectionIndex, connections, flowRates,
                    curSwitchIndex, configured, nextInOrder, layoutVars, matrixVars,
                    parameters, errorIndicator, curCode, connIn, recorderVars >>

SetSensitiveParameter ==
    /\ configured # "no"
    /\ \E pId \in ParamIds, unitFound \in BOOLEAN :
           SetSensitiveParameterWith(pId, (FilterByUnit(models, pId) # {}) /\ unitFound)

\* clearSensParams()
ClearSensParams ==
    /\ sensParams # {}
    /\ sensParams' = {}
    /\ call' = [ op |-> "clearSensParams" ]
    /\ exc' = NoError
    /\ UNCHANGED << models, paramProvider, switchSectionIndex, connections, flowRates,
                    curSwitchIndex, configured, nextInOrder, layoutVars, matrixVars,
                    parameters, errorIndicator, curCode, connIn, recorderVars >>

\* setParameter(pId, double value), with what hasParameter(pId) returns
\* ahead of the call; owners are the units that have the parameter.
SetParameterWith(pId, value, owners, impl) ==
    /\ flowRates' = IF HandlesOf(parameters, pId) = {} THEN flowRates
                    ELSE WithValueAt(flowRates, 1,
                             CHOOSE h \in HandlesOf(parameters, pId) : TRUE, value)
    /\ call' = [ op |-> "setParameter", pId |-> pId, owners |-> owners,
                 has |-> hasParameter(models, parameters, pId, owners),
                 delivered |-> impl.delivered,
                 ret |-> impl.ret \/ (HandlesOf(parameters, pId) # {}) ]
    /\ exc' = NoError
    /\ UNCHANGED << models, paramProvider, switchSectionIndex, connections,
                    curSwitchIndex, configured, nextInOrder, layoutVars, matrixVars,
                    parameters, sensParams, errorIndicator, curCode, connIn,
                    recorderVars >>

SetParameter ==
    /\ configured # "no"
    /\ \E pId \in ParamIds, value \in ParamValues :
         \E owners \in SUBSET FilterByUnit(models, pId) :
           SetParameterWith(pId, value, owners, setParameterImpl(models, pId, owners))

\* A call of the recorder: r is the recorder after it, log what it was told.
RecorderCall(c, r, log) ==
    /\ recorder' = r
    /\ recorderLog' = log
    /\ call' = c
    /\ exc' = NoError
    /\ UNCHANGED modelSystemVars

\* solutionConfig(cfg), ..., sensitivityDotConfig(cfg), ahead of everything.
ConfigureRecorder ==
    /\ call = NoCall
    /\ \E cfg \in StorageConfigs :
           RecorderCall([ op |-> "storageConfig" ], [ recorder EXCEPT !.cfg = cfg ],
                        recorderLog)

\* notifyIntegrationStart(numDofs, numSens, numTimesteps); an integration
\* starts outside the brackets.
NotifyIntegrationStart ==
    /\ recorderLog.open = NullBracket
    /\ \E numSens \in SensCounts, numTimesteps \in 0..MaxTimesteps :
           RecorderCall([ op |-> "notifyIntegrationStart", numTimesteps |-> numTimesteps ],
                        notifyIntegrationStart(recorder, numSens, numTimesteps),
                        [ recorderLog EXCEPT !.steps = 0 ])

\* unitOperationStructure(idx, model, exporter).  The recorded unit always
\* comes with the same exporter.
UnitOperationStructure ==
    \E idx \in ReportedUnits, exporter \in Exporters :
        /\ (idx = RecordedUnit /\ recorderLog.exporter # NoExporter)
               => exporter = recorderLog.exporter
        /\ RecorderCall([ op |-> "unitOperationStructure", idx |-> idx ],
                        unitOperationStructure(recorder, idx, exporter),
                        IF idx = RecordedUnit
                        THEN [ recorderLog EXCEPT !.exporter = exporter ]
                        ELSE recorderLog)

\* beginTimestep(t)
BeginTimestep ==
    /\ recorderLog.steps < MaxTimesteps
    /\ RecorderCall([ op |-> "beginTimestep" ], beginTimestep(recorder),
                    [ recorderLog EXCEPT !.steps = @ + 1 ])

\* One of the four begin calls; a sensitivity index is one for which
\* buffers exist.
BeginBracket ==
    \E opName \in BeginCalls, sensIdx \in 0..Max(SensCounts) :
        /\ BracketOf(opName, sensIdx) \in DOMAIN recorder.buf
        /\ RecorderCall([ op |-> opName, sensIdx |-> sensIdx ],
                        beginBracket(recorder, BracketOf(opName, sensIdx)),
                        [ recorderLog EXCEPT !.open = BracketOf(opName, sensIdx) ])

\* One of the four end calls.
EndBracket ==
    \E opName \in EndCalls :
        RecorderCall([ op |-> opName ], endSolution(recorder),
                     [ recorderLog EXCEPT !.open = NullBracket ])

\* beginUnitOperation(idx, model, exporter)
BeginUnitOperationWith(idx, exporter, r) ==
    /\ Stored(r) <= MaxStored
    /\ RecorderCall([ op |-> "beginUnitOperation", idx |-> idx ], r, recorderLog)

BeginUnitOperation ==
    \E idx \in ReportedUnits, exporter \in Exporters :
        /\ (recorderLog.exporter # NoExporter) => (exporter = recorderLog.exporter)
        /\ BeginUnitOperationWith(idx, exporter,
                                  beginUnitOperation(recorder, idx, exporter))

\* The calls of a run of the simulator: after the integration start, time
\* steps that report the recorded unit once inside beginSolution and
\* endSolution; the structure of the units may be reported between the steps.
RunStart == (call = NoCall) /\ NotifyIntegrationStart
RunStructure ==
    /\ call.op \in { "notifyIntegrationStart", "unitOperationStructure", "endTimestep" }
    /\ UnitOperationStructure
RunBeginTimestep ==
    /\ call.op \in { "notifyIntegrationStart", "unitOperationStructure", "endTimestep" }
    /\ BeginTimestep
RunBeginSolution ==
    /\ call.op = "beginTimestep"
    /\ RecorderCall([ op |-> "beginSolution", sensIdx |-> 0 ],
                    beginBracket(recorder, Bracket("solution", 0)),
                    [ recorderLog EXCEPT !.open = Bracket("solution", 0) ])
RunReport ==
    /\ call.op = "beginSolution"
    /\ \E exporter \in Exporters :
        /\ (recorderLog.exporter # NoExporter) => (exporter = recorderLog.exporter)
        /\ BeginUnitOperationWith(RecordedUnit, exporter,
                                  beginUnitOperation(recorder, RecordedUnit, exporter))
RunEndSolution ==
    /\ call.op = "beginUnitOperation"
    /\ RecorderCall([ op |-> "endSolution" ], endSolution(recorder),
                    [ recorderLog EXCEPT !.open = NullBracket ])
\* endTimestep()
RunEndTimestep ==
    /\ call.op = "endSolution"
    /\ RecorderCall([ op |-> "endTimestep" ], recorder, recorderLog)

-----------------------------------------------------------------------------
(* Specifications *)

Next == Configure \/ Reconfigure \/ Notify
Spec == Init /\ [][Next]_vars

NextFuse == FuseLocal \/ FusePair
SpecFuse == InitFuse /\ [][NextFuse]_vars

NextConn == CheckRowsCall
SpecConn == InitConn /\ [][NextConn]_vars

NextFlow == CheckFlowCall
SpecFlow == InitFlow /\ [][NextFlow]_vars

NextAsm == ConfigureAsm \/ Notify
SpecAsm == InitAsm /\ [][NextAsm]_vars

NextRes == ConfigureRes \/ Notify \/ Residual
SpecRes == InitRes /\ [][NextRes]_vars

NextSolve == ConfigureSolve \/ NotifySolve \/ SolveLocally \/ ForwardEliminate
                 \/ SchurSolve \/ BackSubstitute
SpecSolve == InitSolve /\ [][NextSolve]_vars

NextPar == ConfigurePar \/ NotifyPar \/ BeginParallel \/ TaskStep \/ Join
SpecPar == InitPar /\ [][NextPar]_vars

NextConsistent == ConfigureConsistent \/ NotifyConsistent \/ BeginConsistentInit
                      \/ ConsistentInitStep
SpecConsistent == InitConsistent /\ [][NextConsistent]_vars

NextSens == ConfigureRes \/ NotifySens \/ ResidualSens
SpecSens == InitRes /\ [][NextSens]_vars

NextParam == ConfigureParam \/ ReconfigureParam \/ SetParameter
SpecParam == Init /\ [][NextParam]_vars

NextSensParam ==
    \/ ConfigureParam \/ ReconfigureParam \/ Notify
    \/ SetSensitiveParameter \/ ClearSensParams
SpecSensParam == Init /\ [][NextSensParam]_vars

NextRec ==
    \/ ConfigureRecorder \/ NotifyIntegrationStart \/ UnitOperationStructure
    \/ BeginBracket \/ EndBracket \/ BeginUnitOperation
SpecRec == InitLayout /\ [][NextRec]_vars

NextRun ==
    \/ RunStart \/ RunStructure \/ RunBeginTimestep \/ RunBeginSolution
    \/ RunReport \/ RunEndSolution \/ RunEndTimestep
SpecRun == InitLayout /\ [][NextRun]_vars

NextReg == ConfigureReg
SpecReg == InitAsm /\ [][NextReg]_vars

NextLayout == AddModel \/ RemoveModel \/ ConfigureLayout \/ ReconfigureLayout
SpecLayout == InitLayout /\ [][NextLayout]_vars

-----------------------------------------------------------------------------
(* Claims on status fusion (SpecFuse) *)

\* The fused status the specification asks for.
FusedStatus(err) ==
    IF \E c \in CodesOf(err) : c < 0 THEN Min(CodesOf(err)) ELSE Max(CodesOf(err) \cup {0})

IndexPermutations(n) ==
    { p \in [1..n -> 1..n] : \A i, j \in 1..n : (i # j) => (p[i] # p[j]) }

FusedLocal == call.op = "totalErrorIndicatorFromLocal"
FusedPair == call.op = "updateErrorIndicator"

\* C3: totalErrorIndicatorFromLocal returns the most negative code of the list
\* if some code is negative, and otherwise the maximum of the codes (0 for the
\* empty list).
C3_TotalIsMostNegativeElseMax ==
    FusedLocal => (call.ret = FusedStatus(call.arg))

\* C4: totalErrorIndicatorFromLocal returns the same status for every
\* permutation of the list of codes.
C4_TotalIsOrderIndependent ==
    FusedLocal =>
        \A p \in IndexPermutations(Len(call.arg)) :
            totalErrorIndicatorFromLocal([ i \in 1..Len(call.arg) |-> call.arg[p[i]] ]) = call.ret

\* C5: updateErrorIndicator is commutative and associative, and its result is
\* the most negative operand if an operand is negative and the maximum of the
\* operands otherwise.
C5_PairFusionCommutativeAssociative ==
    FusedPair =>
        /\ call.ret = updateErrorIndicator(call.arg[2], call.arg[1])
        /\ \A c \in Codes :
               updateErrorIndicator(call.ret, c)
                   = updateErrorIndicator(call.arg[1], updateErrorIndicator(call.arg[2], c))
        /\ call.ret = IF (call.arg[1] < 0) \/ (call.arg[2] < 0)
                      THEN Min({call.arg[1], call.arg[2]})
                      ELSE Max({call.arg[1], call.arg[2]})

\* C5 witness: two different negative codes have been fused.
C5_Witness ==
    /\ FusedPair
    /\ call.arg[1] < 0
    /\ call.arg[2] < call.arg[1]
    /\ call.ret = call.arg[2]

-----------------------------------------------------------------------------
(* Claims on switch sequencing (Spec) *)

Notified == call.op = "notifyDiscontinuousSectionTransition"
ConfigureCalled == call.op \in {"configure", "reconfigure"}

\* The last switch whose SECTION is at most wrapSec.
LastSwitchReached(sec, wrapSec) ==
    Max({ k \in 0..(Len(sec) - 1) : sec[k + 1] <= wrapSec })

\* The transitions since the last accepted (re)configuration were made for
\* sections 0, 1, ..., call.secIdx in this order.
NotifiedInOrder ==
    /\ Notified
    /\ configured = "ok"
    /\ nextInOrder = call.secIdx + 1

\* C1: after the transitions for sections 0, 1, ..., s the active switch is
\* the last switch whose SECTION is at most s modulo the number of switches.
C1_ActiveSwitchIsLastReached ==
    NotifiedInOrder =>
        curSwitchIndex = LastSwitchReached(switchSectionIndex,
                                           call.secIdx % Len(switchSectionIndex))

\* C2: a section transition rebuilds the coupling matrices iff the section
\* index is 0 or the active switch index after the call differs from the one
\* before it; configure and reconfigure do not rebuild them.
C2_AssembleIffStartOrSwitchChange ==
    /\ Notified =>
           (call.assembled <=> ((call.secIdx = 0) \/ (curSwitchIndex # call.before)))
    /\ ConfigureCalled => ~call.assembled

\* C2 witness: a transition to a later section moved the switch index and
\* rebuilt the matrices.
C2_Witness ==
    /\ Notified
    /\ call.secIdx > 0
    /\ curSwitchIndex # call.before
    /\ call.assembled

SectionsOf(cfg) == [ i \in 1..Len(cfg) |-> cfg[i].section ]

SectionsValid(secs) ==
    /\ \A i \in 1..(Len(secs) - 1) : secs[i] < secs[i + 1]
    /\ (Len(secs) > 0) => (secs[1] = 0)

\* C6: configureSwitches returns normally only for a switch list whose
\* SECTION values increase strictly and start with 0, and throws
\* InvalidParameterException for every list violating either condition.
C6_SectionsValidated ==
    ConfigureCalled =>
        /\ (exc = NoError) =>
               /\ SectionsValid(SectionsOf(paramProvider))
               /\ switchSectionIndex = SectionsOf(paramProvider)
        /\ ~SectionsValid(SectionsOf(paramProvider)) => (exc = InvalidParameterException)

\* C6 witness: a list of several switches has been accepted.
C6_Witness ==
    /\ ConfigureCalled
    /\ exc = NoError
    /\ Len(switchSectionIndex) >= 2

-----------------------------------------------------------------------------
(* Claims on checkConnectionList (SpecConn, SpecFlow) *)

Checked == call.op = "checkConnectionList"

\* Every row passed the row checks: the call returned or failed the balance.
RowsAccepted == Checked /\ (call.ret.error \in {NoError, "FlowBalance"})

BalanceErrorFor(u) == Checked /\ (call.ret.error = "FlowBalance") /\ (call.ret.where = u)

UnitIndices == 0..(Len(models) - 1)
HasUnit(id) == \E u \in UnitIndices : models[u + 1].unitOperationId = id
PositionOf(id) == CHOOSE u \in UnitIndices : models[u + 1].unitOperationId = id
UnitOf(id) == models[PositionOf(id) + 1]

\* A row the specification rejects.
RowInvalid(row) ==
    \/ ~HasUnit(row[1])
    \/ ~HasUnit(row[2])
    \/ /\ HasUnit(row[1])
       /\ HasUnit(row[2])
       /\ \/ ~UnitOf(row[1]).hasOutlet
          \/ ~UnitOf(row[2]).hasInlet
          \/ row[3] >= UnitOf(row[1]).numComponents
          \/ row[4] >= UnitOf(row[2]).numComponents
          \/ (row[3] = -1) # (row[4] = -1)
          \/ /\ row[3] = -1
             /\ row[4] = -1
             /\ UnitOf(row[1]).numComponents # UnitOf(row[2]).numComponents

FirstOfPair(conn, j) ==
    \A k \in 1..(j - 1) : (conn[k][1] # conn[j][1]) \/ (conn[k][2] # conn[j][2])

\* Sum of the flow rates of the first rows of the pairs that have the unit
\* with the given id in column col (1: source, 2: destination), rows j, j+1, ...
RECURSIVE PairFlowSum(_, _, _, _)
PairFlowSum(conn, j, id, col) ==
    IF j > Len(conn) THEN 0
    ELSE (IF (conn[j][col] = id) /\ FirstOfPair(conn, j) THEN conn[j][5] ELSE 0)
         + PairFlowSum(conn, j + 1, id, col)

\* C8: each distinct (source, destination) pair contributes its first-listed
\* flow rate exactly once to the total outflow of the source and to the total
\* inflow of the destination, whatever the unit ids are.
C8_PairCountedOnce ==
    RowsAccepted =>
        \A u \in UnitIndices :
            /\ call.ret.totalOutflow[u + 1] = PairFlowSum(connIn, 1, models[u + 1].unitOperationId, 1)
            /\ call.ret.totalInflow[u + 1] = PairFlowSum(connIn, 1, models[u + 1].unitOperationId, 2)

HasOutgoing(u) == \E j \in 1..Len(connIn) : connIn[j][1] = models[u + 1].unitOperationId

\* A unit whose flows have to balance.
MustBalance(u) ==
    /\ models[u + 1].hasInlet
    /\ models[u + 1].hasOutlet
    /\ ~models[u + 1].canAccumulate
    /\ HasOutgoing(u)

\* C9: for a unit with inlet and outlet that cannot accumulate and has an
\* outgoing connection, no flow-balance error is raised when its total inflow
\* equals its total outflow (both may be zero), and an error is raised when
\* they differ by more than the tolerance.
C9_BalanceChecked ==
    RowsAccepted =>
        \A u \in UnitIndices :
            MustBalance(u) =>
                /\ (call.ret.totalInflow[u + 1] = call.ret.totalOutflow[u + 1])
                       => ~BalanceErrorFor(u)
                /\ (Abs(call.ret.totalInflow[u + 1] - call.ret.totalOutflow[u + 1]) >= 1)
                       => (exc = InvalidParameterException)

OnlyInlet(u) == models[u + 1].hasInlet /\ ~models[u + 1].hasOutlet
OnlyOutlet(u) == ~models[u + 1].hasInlet /\ models[u + 1].hasOutlet

-----------------------------------------------------------------------------
(* Claims on the layout of the state vector (SpecLayout) *)

InletComponents(m) == IF m.hasInlet THEN m.numComponents ELSE 0

RECURSIVE InletComponentsFrom(_, _)
InletComponentsFrom(ms, i) ==
    IF i > Len(ms) THEN 0 ELSE InletComponents(ms[i]) + InletComponentsFrom(ms, i + 1)

\* Number of coupling DOFs of a unit list: the component counts of its
\* inlet-bearing units.
CouplingDofsOf(ms) == InletComponentsFrom(ms, 1)

\* The offset table off describes the unit list ms.
OffsetsDescribe(off, ms) ==
    /\ Len(off) = Len(ms) + 1
    /\ off[1] = 0
    /\ \A i \in 1..Len(ms) :
        /\ off[i + 1] = off[i] + UnitNumDofs(ms[i])
        /\ off[i] < off[i + 1]

\* C12: once configure has returned, after any sequence of addModel,
\* removeModel, configure and reconfigure the DOF offset table describes the
\* current unit list (one entry per unit plus one, starting at 0, increasing
\* by the DOFs of each unit) and numDofs() is the last offset plus the number
\* of coupling DOFs of the list.
C12_OffsetsDescribeUnits ==
    (configured # "no") =>
        /\ OffsetsDescribe(dofOffset, models)
        /\ numDofs(dofOffset, couplingIdxMap, 0)
               = dofOffset[Len(dofOffset)] + CouplingDofsOf(models)

-----------------------------------------------------------------------------
(* Claims on the coupling index map and the coupling matrices (SpecAsm) *)

\* The pairs (unit index, component) of the inlet-bearing units of ms.
InletPairs(ms) ==
    { <<i, c>> \in (0..(Len(ms) - 1)) \X (0..1) :
        ms[i + 1].hasInlet /\ (c < ms[i + 1].numComponents) }

\* The map is a bijection from the pairs above onto 0 .. K-1.
MapIsBijection(map, ms) ==
    /\ DOMAIN map = InletPairs(ms)
    /\ { map[k] : k \in DOMAIN map } = 0..(CouplingDofsOf(ms) - 1)
    /\ \A k1, k2 \in DOMAIN map : (map[k1] = map[k2]) => (k1 = k2)

Assembled == Notified /\ call.assembled

\* C11: in every state after configure has returned, section transitions
\* included, the coupling index map is a bijection from the pairs (unit,
\* component) of the inlet-bearing units onto 0 .. K-1, K the sum of their
\* component counts; assembling the matrices adds no entry.
C11_CouplingMapIsBijection ==
    (configured = "ok") => MapIsBijection(couplingIdxMap, models)

\* The slice of the active switch.
ActiveConn == connections[curSwitchIndex + 1]
ActiveRate == flowRates[curSwitchIndex + 1]

\* Coupling index of component c of unit u: the components of the
\* inlet-bearing units before u come first.
CouplingIndexOf(ms, u, c) == CouplingDofsOf(SubSeq(ms, 1, u)) + c

\* A row that connects all components: the row checks take every negative
\* component index for the wildcard.
IsWildcardRow(row) == row[3] < 0

\* Rows (1-based) that are the first of their (source, destination) pair.
FirstRowsOfPairs(conn) ==
    { j \in 1..Len(conn) :
        \A k \in 1..(j - 1) : (conn[k][1] # conn[j][1]) \/ (conn[k][2] # conn[j][2]) }
FirstRowOf(conn, i) ==
    Min({ j \in FirstRowsOfPairs(conn) :
            (conn[j][1] = conn[i][1]) /\ (conn[j][2] = conn[i][2]) })

\* Total inflow of unit u: the flow rates of the first rows of the pairs
\* that end in u, rows j, j+1, ...
RECURSIVE TotalInflowOf(_, _, _, _)
TotalInflowOf(conn, rate, u, j) ==
    IF j > Len(conn) THEN 0
    ELSE (IF (conn[j][2] = u) /\ (j \in FirstRowsOfPairs(conn)) THEN rate[j] ELSE 0)
         + TotalInflowOf(conn, rate, u, j + 1)

\* The entry the claim describes for component cs -> cd of row i.
ClaimedEntry(ms, conn, rate, i, cs, cd) ==
    Entry(CouplingIndexOf(ms, conn[i][2], cd),
          localOutletComponentIndex(ms[conn[i][1] + 1])
              + localOutletComponentStride(ms[conn[i][1] + 1]) * cs,
          -rate[FirstRowOf(conn, i)],
          TotalInflowOf(conn, rate, conn[i][2], 1))

ClaimedEntries(ms, conn, rate, i) ==
    IF IsWildcardRow(conn[i])
    THEN [ c \in 1..ms[conn[i][1] + 1].numComponents |->
             ClaimedEntry(ms, conn, rate, i, c - 1, c - 1) ]
    ELSE << ClaimedEntry(ms, conn, rate, i, conn[i][3], conn[i][4]) >>

\* The outbound matrix of unit u the claim describes, rows i, i+1, ...
RECURSIVE ClaimedOutbound(_, _, _, _, _)
ClaimedOutbound(ms, conn, rate, u, i) ==
    IF i > Len(conn) THEN <<>>
    ELSE (IF conn[i][1] = u THEN ClaimedEntries(ms, conn, rate, i) ELSE <<>>)
         \o ClaimedOutbound(ms, conn, rate, u, i + 1)

\* C13: after assembly the outbound matrix of every unit holds, for each row
\* of the active switch leaving the unit, one entry (specific component) or
\* one entry per component (all components) at the coupling index of the
\* destination component and the outlet column of the source component,
\* with the weight -flowRate(first row of the pair) / totalInflow(destination),
\* and nothing else.
C13_OutboundEntriesAsClaimed ==
    Assembled =>
        \A u \in UnitIndices :
            jacFN[u + 1] = ClaimedOutbound(models, ActiveConn, ActiveRate, u, 1)

\* All entries of the outbound matrices, unit after unit.
RECURSIVE OutboundEntriesFrom(_, _)
OutboundEntriesFrom(fn, u) ==
    IF u > Len(fn) THEN <<>> ELSE fn[u] \o OutboundEntriesFrom(fn, u + 1)

\* Sum of the entries j, j+1, ... of es that lie in row k, as the fraction
\* <<numerator, denominator>>, added to the fraction acc.
RECURSIVE RowSumFrom(_, _, _, _)
RowSumFrom(es, k, j, acc) ==
    IF j > Len(es) THEN acc
    ELSE IF es[j].row # k THEN RowSumFrom(es, k, j + 1, acc)
    ELSE RowSumFrom(es, k, j + 1,
             << acc[1] * es[j].den + es[j].num * acc[2], acc[2] * es[j].den >>)

RowsHit(es) == { es[j].row : j \in 1..Len(es) }

RowSumsToMinusOne(es, k) ==
    /\ RowSumFrom(es, k, 1, <<0, 1>>)[2] # 0
    /\ RowSumFrom(es, k, 1, <<0, 1>>)[1] = -RowSumFrom(es, k, 1, <<0, 1>>)[2]

\* C14: after assembly the entries of the outbound matrices in the row of
\* every coupling DOF that receives a connection sum to -1; in particular no
\* entry has a zero total inflow as its denominator.
C14_RowsSumToMinusOne ==
    Assembled =>
        \A k \in RowsHit(OutboundEntriesFrom(jacFN, 1)) :
            RowSumsToMinusOne(OutboundEntriesFrom(jacFN, 1), k)

-----------------------------------------------------------------------------
(* Claims on the residual (SpecRes) *)

\* Element k (0-based) of the product of the matrix A with the vector x + xoff:
\* the entries j, j+1, ... of row k.
RECURSIVE RowDot(_, _, _, _, _)
RowDot(A, k, x, xoff, j) ==
    IF j > Len(A) THEN 0
    ELSE (IF A[j].row = k THEN EntryTimes(A[j], x[xoff + A[j].col + 1]) ELSE 0)
         + RowDot(A, k, x, xoff, j + 1)

\* Element k of the sum over the units u, u+1, ... of outbound[u] * y[unit u].
RECURSIVE OutboundDot(_, _, _, _, _)
OutboundDot(fn, off, y, k, u) ==
    IF u > Len(fn) THEN 0
    ELSE RowDot(fn[u], k, y, off[u], 1) + OutboundDot(fn, off, y, k, u + 1)

ResidualCalled == call.op = "residual"
FinalOffset == dofOffset[Len(dofOffset)]
CouplingRows == 0..(numCouplingDOF(couplingIdxMap) - 1)

\* Every coupling value equals the flow-weighted combination of the outlets
\* connected to it.
CouplingBalanced(y) ==
    \A k \in CouplingRows :
        y[FinalOffset + k + 1] = -OutboundDot(jacFN, dofOffset, y, k, 1)

\* C15: after residual() the coupling rows equal state[coupling] plus the sum
\* of outbound[i] * state[unit i], the slice of each unit equals its local
\* residual plus inbound[i] * state[coupling], and the coupling rows are zero
\* whenever every coupling value is the flow-weighted combination of the
\* outlets connected to it.
C15_ResidualCouplesUnits ==
    ResidualCalled =>
        /\ \A k \in CouplingRows :
              call.res[FinalOffset + k + 1]
                  = call.y[FinalOffset + k + 1] + OutboundDot(jacFN, dofOffset, call.y, k, 1)
        /\ \A u \in UnitIndices : \A r \in 1..UnitNumDofs(models[u + 1]) :
              call.res[dofOffset[u + 1] + r]
                  = call.local[dofOffset[u + 1] + r]
                    + RowDot(jacNF[u + 1], r - 1, call.y, FinalOffset, 1)
        /\ CouplingBalanced(call.y) =>
              \A k \in CouplingRows : call.res[FinalOffset + k + 1] = 0

\* C15 witness: a residual evaluated with assembled matrices at a state with
\* non-zero balanced coupling values, whose coupling rows came out zero.
C15_Witness ==
    /\ ResidualCalled
    /\ \E u \in UnitIndices : jacFN[u + 1] # <<>>
    /\ CouplingBalanced(call.y)
    /\ \A k \in CouplingRows :
          (call.y[FinalOffset + k + 1] # 0) /\ (call.res[FinalOffset + k + 1] = 0)

-----------------------------------------------------------------------------
(* Claims on linearSolve (SpecSolve) *)

SolveReturned == (call.op = "linearSolve") /\ (call.pc = "backSubstitution")

\* Row r of unit u of J x: the unit's diagonal block and its inbound block.
UnitRowOfJ(x, u, r) ==
    UnitJacobianRow(models[u], Slice(x, dofOffset[u], UnitNumDofs(models[u])), r)
        + RowDot(jacNF[u], r - 1, x, FinalOffset, 1)

\* J x for the block matrix J of the unit diagonal blocks, the inbound
\* blocks, the outbound blocks and the identity coupling block.
JTimes(x) ==
    [ g \in 1..Len(x) |->
        IF g > FinalOffset
        THEN x[g] + OutboundDot(jacFN, dofOffset, x, g - FinalOffset - 1, 1)
        ELSE UnitRowOfJ(x, CHOOSE u \in 1..Len(models) :
                               (dofOffset[u] < g) /\ (g <= dofOffset[u + 1]),
                        g - dofOffset[CHOOSE u \in 1..Len(models) :
                               (dofOffset[u] < g) /\ (g <= dofOffset[u + 1])]) ]

\* The steps of linearSolve in the order they may follow each other.
SolveStepOrder ==
    << "localSolves", "forwardElimination", "schurSolve", "backSubstitution" >>
StepFollows(p, q) ==
    \E k \in 1..(Len(SolveStepOrder) - 1) : SolveStepOrder[k] = p /\ SolveStepOrder[k + 1] = q

\* C16: when linearSolve returns, rhs holds the solution x of J x = rhs for
\* the right-hand side passed in (local solves and Krylov solve exact), and a
\* step of the call is only ever followed by the next one of the order local
\* solves, forward elimination, Schur-complement solve, back substitution.
C16_LinearSolveSolves ==
    [][ /\ (call'.op = "linearSolve" /\ call'.pc = "backSubstitution")
            => JTimes(call'.rhs) = call'.rhsIn
        /\ (call'.op = "linearSolve" /\ call' # call)
            => IF call.op = "linearSolve" THEN StepFollows(call.pc, call'.pc)
               ELSE call'.pc = SolveStepOrder[1] ]_vars

\* A call returned a solution that differs from its right-hand side in a
\* unit block and in the coupling block, in the connected chain.
C16_Witness ==
    /\ SolveReturned
    /\ Len(jacFN[2]) > 0
    /\ \E g \in 1..FinalOffset : call.rhs[g] # call.rhsIn[g]
    /\ \E g \in (FinalOffset + 1)..Len(call.rhs) : call.rhs[g] # call.rhsIn[g]

\* The fusion of a set of status codes: the most negative one if any is
\* negative, otherwise the maximum.
FusedStatusOf(S) == IF \E c \in S : c < 0 THEN Min(S) ELSE Max(S \cup {0})

\* C19: the value linearSolve returns is the fusion of the status codes of
\* all the local solves of the call (forward, inside the matrix-vector
\* products, back substitution) and of the Krylov solve.
C19_ReturnIsFusionOfAll ==
    SolveReturned => call.ret = FusedStatusOf(call.seen)

-----------------------------------------------------------------------------
(* Claims on the parallel loops (SpecPar) *)

Running == (call.op = "parallel_for") /\ ~call.joined
Finished(k) == call.pc[k] = Len(Program(call.phase))
\* What task k writes in the statement it is about to run.
NextWrites(k) ==
    IF Finished(k) THEN {}
    ELSE WriteSet(Program(call.phase)[call.pc[k] + 1], jacFN, dofOffset, call.tasks[k])
\* The DOF slice and the status slot of the unit of task k, in any array.
OwnLocations(k) ==
    { << "_errorIndicator", call.tasks[k] >> }
        \cup UNION { SliceOf(array, dofOffset, call.tasks[k]) :
                        array \in {"res", "rhs", "_tempState"} }
SharedResult == { << "z", g >> : g \in CouplingRows }

\* The units with inlet and outlet among the registered ones.
ParticipatingUnits == InOutAfterAdding(models)

\* C17: when the parallel loop of schurComplementMatrixVector has finished,
\* z = x - sum over the units i with inlet and outlet of
\* outbound[i] * (local solve of inbound[i] * x), whatever the order in which
\* the tasks ran and took the mutex.
C17_SameResultForEveryInterleaving ==
    ((call.op = "parallel_for") /\ (call.phase = "schurMatVec") /\ call.joined)
        => call.z = schurComplementMatrixVector(models, ParticipatingUnits, jacNF, jacFN,
                                                call.x)

\* C18: in every parallel loop two running tasks are never about to write
\* the same location, z is written only by the task holding the mutex, a
\* task writes nothing else than its unit's DOF slice and status slot, and
\* the loop is left only when all its tasks have finished.
NoConflictingWrites ==
    Running =>
        \A k \in 1..Len(call.tasks) :
            /\ \A j \in 1..Len(call.tasks) :
                 (j # k) => (NextWrites(j) \cap NextWrites(k) = {})
            /\ (NextWrites(k) \cap SharedResult # {}) => (call.mutex = k)
            /\ NextWrites(k) \subseteq (OwnLocations(k) \cup SharedResult)

C18_TasksWriteDisjointMemory ==
    [][ /\ NoConflictingWrites'
        /\ ((call'.op = "parallel_for") /\ call'.joined)
             => ((call.op = "parallel_for")
                   /\ \A k \in 1..Len(call.tasks) : Finished(k)) ]_vars

-----------------------------------------------------------------------------
(* Claims on the consistent initializer (SpecConsistent) *)

Initializing == call.op = "consistentInitialConditions"
InitializerDone == Initializing /\ (call.pc = Len(ConsistentInitSteps))

\* What a log entry ran, and on which unit or vector.
RoutineRun(e) ==
    IF e.routine \in {"state", "timeDerivative"} THEN << e.routine, e.unit >>
    ELSE IF e.routine = "residualWithJacobian" THEN << e.routine, e.yDot >>
    ELSE << e.routine, e.vec >>
RoutinesRun == [ k \in 1..Len(call.st.log) |-> RoutineRun(call.st.log[k]) ]

UnitIndexList == [ i \in 1..Len(models) |-> i - 1 ]
RoutineOfUnits(routine, Keep(_)) ==
    [ k \in 1..Len(SelectSeq(UnitIndexList, Keep)) |->
        << routine, SelectSeq(UnitIndexList, Keep)[k] >> ]
CouplingSolveOf(vec) == << << "zeroCoupling", vec >>, << "solveCouplingDOF", vec >> >>

\* The phases of the initializer in the claimed order.
ClaimedRoutines ==
    RoutineOfUnits("state", LAMBDA i : ~models[i + 1].hasInlet)
        \o CouplingSolveOf("y")
        \o RoutineOfUnits("state", LAMBDA i : models[i + 1].hasInlet)
        \o << << "residualWithJacobian", "nullptr" >> >>
        \o RoutineOfUnits("timeDerivative", LAMBDA i : TRUE)
        \o CouplingSolveOf("yDot")

IsPrefix(a, b) == (Len(a) <= Len(b)) /\ (\A k \in 1..Len(a) : a[k] = b[k])

\* C20: the full and the lean initializer run the state routine of the units
\* without inlet, zero and solve the coupling block of the state, run the
\* state routine of the units with inlet, evaluate one residual with Jacobian
\* without time derivative, run the time-derivative routine of every unit and
\* zero and solve the coupling block of the derivative, in this order and
\* each once; a unit with an inlet is initialized only after the coupling
\* solve has set its inlet values.
C20_InitializerPhaseOrder ==
    Initializing =>
        /\ IsPrefix(RoutinesRun, ClaimedRoutines)
        /\ InitializerDone => (RoutinesRun = ClaimedRoutines)
        /\ \A k \in 1..Len(call.st.log) :
             (call.st.log[k].routine = "state") => call.st.log[k].inletsSet

\* A lean initialization has finished on the list with the through-unit
\* first, and the coupling solve moved a non-zero outlet value to the inlets.
C20_Witness ==
    /\ InitializerDone
    /\ call.tag = "lean"
    /\ models[1].hasInlet
    /\ \E k \in CouplingRows : call.st.y[FinalOffset + k + 1] # 0

\* The outbound matrices the connection table of the active switch stands
\* for: weight -flow rate / total inflow of the destination.
ConnectedOutbound ==
    [ u \in 1..Len(models) |-> ClaimedOutbound(models, ActiveConn, ActiveRate, u - 1, 1) ]

\* The coupling solve of the state has just run, after the transition into
\* section 0 assembled the matrices.
CouplingJustSolved == Initializing /\ (call.pc = 2) /\ (nextInOrder = 1)

\* C21: after the coupling solve of the initializer every coupling DOF is the
\* flow-weighted combination of the outlet values of the units connected to
\* it and the inlet DOFs of every unit with an inlet hold its coupling DOFs;
\* on the chain source -> sink with one connection of flow rate 1 the
\* coupling value is the outlet value of the source and the inlet value of
\* the sink is the coupling value.
C21_CouplingSolveBalances ==
    CouplingJustSolved =>
        /\ \A k \in CouplingRows :
             call.st.y[FinalOffset + k + 1]
                 = 0 - OutboundDot(ConnectedOutbound, dofOffset, call.st.y, k, 1)
        /\ \A i \in UnitIndices :
             models[i + 1].hasInlet
                 => InletsHoldCoupling(models, dofOffset, couplingIdxMap, call.st.y, i)
        /\ ((models = ChainConsistent) /\ (ActiveConn = << <<0, 1, -1, -1>> >>)
                /\ (ActiveRate = <<1>>))
             => /\ call.st.y[3] = call.st.y[1]
                /\ call.st.y[2] = call.st.y[3]

\* The coupling solve ran on the chain source -> sink with a non-zero outlet
\* value of the source, and on the unit fed by two sources that differ.
C21_Witness ==
    /\ CouplingJustSolved
    /\ \/ (models = ChainConsistent) /\ (call.st.y[1] # 0) /\ (ActiveRate = <<1>>)
       \/ (models = NetworkRes) /\ (call.st.y[1] # call.st.y[2]) /\ (Len(ActiveConn) = 3)

-----------------------------------------------------------------------------
(* Claims on the forward sensitivities (SpecSens) *)

\* C22: for every sensitivity parameter the coupling rows of the sensitivity
\* residual equal s[coupling] + sum over the units of outbound[i] * s[unit i]
\* plus the derivative read from the dual-valued coupling residual; they
\* depend on nothing the call has not computed.
C22_SensCouplingRows ==
    (call.op = "residualSensFwd") =>
        \A param \in 1..Len(call.yS) : \A k \in CouplingRows :
            call.resS[param][FinalOffset + k + 1]
                = call.yS[param][FinalOffset + k + 1]
                    + OutboundDot(jacFN, dofOffset, call.yS[param], k, 1)
                    + call.ad[param][k + 1]

-----------------------------------------------------------------------------
(* Claims on the flow-rate parameters (SpecReg) *)

SwitchesOk == (call.op \in {"configure", "reconfigure"}) /\ (call.error = NoError)
SwitchRange == 0..(Len(connections) - 1)
RowRange(i) == 0..(Len(connections[i + 1]) - 1)
PairOfRow(i, j) == << connections[i + 1][j + 1][1], connections[i + 1][j + 1][2] >>
FirstRowOfSamePair(i, j) == Min({ k \in RowRange(i) : PairOfRow(i, k) = PairOfRow(i, j) })
\* The place in the storage of _flowRates of row j of switch i
PlaceOf(i, j) == Len(FlatFlowRates(SubSeq(flowRates, 1, i), 1)) + j
ClaimedParameters ==
    { [ id |-> FlowParamId(PairOfRow(i, j)[1], PairOfRow(i, j)[2], i),
        handle |-> PlaceOf(i, FirstRowOfSamePair(i, j)) ] :
        <<i, j>> \in { x \in SwitchRange \X (0..MaxRowsReg) : x[2] \in RowRange(x[1]) } }

\* The registrations alone: one parameter per switch and pair, bound to the
\* flow rate of the first row of the pair.
OnePerPairBoundToFirstRow == SwitchesOk => (parameters = ClaimedParameters)

\* The rows of a pair all carry the flow rate of its first row.
LaterRowsCarryFirstValue ==
    SwitchesOk =>
        \A i \in SwitchRange : \A j \in RowRange(i) :
            flowRates[i + 1][j + 1] = flowRates[i + 1][FirstRowOfSamePair(i, j) + 1]

\* C23: after configureSwitches every switch and every distinct (source,
\* destination) pair of it has exactly one registered flow-rate parameter,
\* bound to the flow rate of the first row of the pair and keyed by pair and
\* switch index; later rows of the pair register nothing and carry the flow
\* rate of the first row.
C23_OneParameterPerPair == OnePerPairBoundToFirstRow /\ LaterRowsCarryFirstValue

-----------------------------------------------------------------------------
(* Claims on the unit list (SpecLayout) *)

DistinctIds(ms) ==
    \A i, j \in 1..Len(ms) : (ms[i].unitOperationId = ms[j].unitOperationId) => (i = j)

\* C24: addModel throws for a unit whose id a registered unit already has and
\* leaves the unit list as it was; and the registered units have pairwise
\* distinct ids in every state reached by adding and removing units.
C24_DuplicateIdsRejected ==
    /\ DistinctIds(models)
    /\ [][ /\ DistinctIds(models')
           /\ ((call'.op = "addModel")
                 /\ (\E i \in 1..Len(models) :
                        models[i].unitOperationId = call'.arg.unitOperationId))
              => /\ exc' = InvalidParameterException
                 /\ models' = models
                 /\ inOutModels' = inOutModels ]_vars

\* A unit is rejected after units have been added and one has been removed.
C24_Witness ==
    /\ call.op = "addModel"
    /\ exc = InvalidParameterException
    /\ Len(models) > 0
    /\ inOutModels # InOutAfterAdding(models)

\* C26: after any sequence of addModel and removeModel, _inOutModels, over
\* which the Schur-complement matrix-vector product iterates, holds exactly
\* the current array indices of the units with inlet and outlet.
C26_InOutListIsCurrent ==
    (call.op \in {"addModel", "removeModel"}) => (inOutModels = InOutAfterAdding(models))

-----------------------------------------------------------------------------
(* Claims on the active switch (Spec) *)

\* C27: once configure has succeeded, and through every sequence of
\* reconfigure and notifyDiscontinuousSectionTransition that succeeds, the
\* active switch index is below the number of configured switches.
C27_ActiveSwitchInRange ==
    (configured = "ok") => (curSwitchIndex < Len(switchSectionIndex))

-----------------------------------------------------------------------------
(* Claims on the parameters (SpecSensParam, SpecParam) *)

\* C25: in every state each sensitive flow-rate parameter is a flow-rate
\* parameter registered in the parameter table; the registration survives
\* configure, reconfigure and section transitions.
C25_SensitiveParametersRegistered ==
    \A h \in sensParams : \E q \in parameters : q.handle = h

\* C28: setParameter with a double returns true for every parameter id for
\* which hasParameter returns true, and a unit-independent id owned by a
\* registered unit reaches that unit.
C28_SetParameterReachesOwner ==
    (call.op = "setParameter") =>
        /\ call.has => call.ret
        /\ (call.pId.unitOperation = UnitOpIndep) => (call.owners \subseteq call.delivered)

-----------------------------------------------------------------------------
(* Claims on the recorder (SpecRec, SpecRun) *)

\* b holds what a held, and possibly more behind it.
Extends(b, a) == (Len(a) <= Len(b)) /\ (SubSeq(b, 1, Len(a)) = a)

\* C29: beginUnitOperation appends data only if the reported unit is the
\* recorded one and a bracket has been opened and not closed since; the data
\* goes to the buffers of the bracket opened last, and after an end call
\* nothing is recorded until the next begin call.
C29_RecordsInsideBracketOnly ==
    [][ (call'.op = "beginUnitOperation") =>
          /\ DOMAIN recorder'.buf = DOMAIN recorder.buf
          /\ (recorder'.buf # recorder.buf) =>
                /\ call'.idx = recorder.unitOp
                /\ recorderLog.open # NullBracket
          /\ \A f \in DOMAIN recorder.buf :
                IF f = recorderLog.open
                THEN /\ Extends(recorder'.buf[f].outlet, recorder.buf[f].outlet)
                     /\ Extends(recorder'.buf[f].inlet, recorder.buf[f].inlet)
                ELSE recorder'.buf[f] = recorder.buf[f] ]_vars

\* The recorded unit has been recorded into the buffers of a bracket of the
\* sensitivity derivatives, opened after other brackets.
C29_Witness ==
    /\ call.op = "beginUnitOperation"
    /\ call.idx = RecordedUnit
    /\ recorderLog.open = Bracket("sensitivityDot", 0)
    /\ recorder.buf[Bracket("sensitivityDot", 0)].outlet = <<11>>
    /\ recorder.buf[Bracket("sensitivityDot", 0)].inlet = <<>>
    /\ recorder.buf[Bracket("solution", 0)].inlet = <<21>>

\* C30: with outlet storage, after notifyIntegrationStart and time steps that
\* each report the recorded unit once between beginSolution and endSolution,
\* numDataPoints() is the number of beginTimestep calls since the start and
\* the outlet buffer holds numDataPoints() * numComponents() values, whether
\* or not unitOperationStructure was called for the unit.
C30_DataPointsCountTimesteps ==
    (call.op = "endTimestep") =>
        /\ recorder.numTimesteps = recorderLog.steps
        /\ Len(recorder.buf[Bracket("solution", 0)].outlet)
               = recorder.numTimesteps * recorder.nComp

====
